---- MODULE Spec2Model ----
(***************************************************************************)
(* Package compatibility resolution engine of dbt-autofix:                 *)
(*   dbt_autofix/packages/dbt_package.py      (DbtPackage, the classifier) *)
(*   dbt_autofix/package_upgrade.py           (the upgrade decision engine)*)
(* A version is a triple <<major, minor, patch>>; a version specifier is a *)
(* record [matcher, version]; a version range is [start, end], each bound  *)
(* an optional specifier.                                                  *)
(***************************************************************************)
EXTENDS Integers, Sequences, FiniteSets, TLC

VARIABLES
    package_dependencies,   \* DbtPackageFile.package_dependencies: ordered dict, as a sequence of DbtPackage
    packages_to_check,      \* check_for_package_upgrades: the working set of package ids
    results,                \* check_for_package_upgrades: package_version_upgrade_results
    pc,                     \* position in check_for_package_upgrades / upgrade_package_versions
    raised,                 \* TRUE once a step raised (KeyError of set.remove)
    package_fusion_compatibility,  \* check_for_package_upgrades: the ids of each compatibility state
    buckets,                \* upgrade_package_versions: the three partitions of the results
    manifest,               \* the version constraint written in the manifest, per declared package
    first_results,          \* the list an earlier call of check_for_package_upgrades returned, if any
    iteration_order,        \* the order in which this process iterates the working set, once it has
    root_dir,               \* generate_package_dependencies: the project directory
    dependency_path,        \* generate_package_dependencies: the name of the manifest file read
    lookup,                 \* DbtPackageFile.get_reverse_lookup_by_package_name: the mapping built last
    log,                    \* what console.log / error_console.log were given, in order
    call,                   \* the call made last on the object under study: its arguments and outcome
    text_file,              \* a DbtPackageTextFile and the manifest file on disk it stands for
    python_file             \* a Python model file, its schema specs and what the two refactors returned

vars == <<package_dependencies, packages_to_check, results, pc, raised,
          package_fusion_compatibility, buckets, manifest, first_results, iteration_order,
          root_dir, dependency_path, lookup, log, call, text_file, python_file>>

\* Optional[T]: None, or Some(x) with value x = Some(x)[1]
None == <<>>
Some(x) == <<x>>

-----------------------------------------------------------------------------
(* Bounds of the model *)

\* longest knowledge-base list of Fusion-compatible versions
MaxVersions == 2
\* most dependencies declared in one manifest
MaxPackages == 3

-----------------------------------------------------------------------------
(* Versions (dbt_common.semver as used by the repository) *)

Versions == {<<0, 9, 9>>, <<1, 2, 0>>, <<1, 10, 0>>, <<2, 0, 0>>}

FUSION_COMPATIBLE_VERSION == <<2, 0, 0>>

Digits == <<"0", "1", "2", "3", "4", "5", "6", "7", "8", "9">>

RECURSIVE NatToString(_)
NatToString(n) ==
    IF n < Len(Digits) THEN Digits[n + 1]
    ELSE NatToString(n \div Len(Digits)) \o Digits[(n % Len(Digits)) + 1]

\* VersionSpecifier.to_version_string
to_version_string(v) ==
    NatToString(v[1]) \o "." \o NatToString(v[2]) \o "." \o NatToString(v[3])

\* VersionSpecifier ordering: numeric, component by component
VersionLess(a, b) ==
    \/ a[1] < b[1]
    \/ a[1] = b[1] /\ a[2] < b[2]
    \/ a[1] = b[1] /\ a[2] = b[2] /\ a[3] < b[3]

VersionLeq(a, b) == a = b \/ VersionLess(a, b)

\* does the exact version v satisfy one bound of a range
SatisfiesBound(v, bound) ==
    IF bound = None THEN TRUE
    ELSE CASE bound[1].matcher = ">=" -> VersionLeq(bound[1].version, v)
           [] bound[1].matcher = ">"  -> VersionLess(bound[1].version, v)
           [] bound[1].matcher = "<"  -> VersionLess(v, bound[1].version)
           [] bound[1].matcher = "<=" -> VersionLeq(v, bound[1].version)
           [] OTHER                   -> v = bound[1].version

\* versions_compatible(version, range.start, range.end)
versions_compatible(v, start, end) ==
    SatisfiesBound(v, start) /\ SatisfiesBound(v, end)

IsLower(s) == s.matcher \in {">=", ">"}
IsUpper(s) == s.matcher \in {"<", "<="}

\* the tighter of two lower bounds
TighterLower(a, b) ==
    IF a = None THEN Some(b)
    ELSE IF VersionLess(a[1].version, b.version) THEN Some(b)
    ELSE IF VersionLess(b.version, a[1].version) THEN a
    ELSE IF a[1].matcher = ">" THEN a ELSE Some(b)

\* the tighter of two upper bounds
TighterUpper(a, b) ==
    IF a = None THEN Some(b)
    ELSE IF VersionLess(b.version, a[1].version) THEN Some(b)
    ELSE IF VersionLess(a[1].version, b.version) THEN a
    ELSE IF a[1].matcher = "<" THEN a ELSE Some(b)

RECURSIVE ReduceSpecifiers(_, _)
ReduceSpecifiers(specs, range) ==
    IF specs = <<>> THEN range
    ELSE LET s == Head(specs)
             r == IF IsLower(s) THEN [range EXCEPT !.start = TighterLower(@, s)]
                  ELSE IF IsUpper(s) THEN [range EXCEPT !.end = TighterUpper(@, s)]
                  ELSE [start |-> Some(s), end |-> Some(s)]
         IN ReduceSpecifiers(Tail(specs), r)

\* construct_version_list + get_version_specifiers + convert_version_specifiers_to_range
convert_version_specifiers_to_range(raw) ==
    IF raw = None THEN [start |-> None, end |-> None]
    ELSE ReduceSpecifiers(raw[1], [start |-> None, end |-> None])

\* sorted(versions, reverse=True): stable insertion into a descending list
RECURSIVE InsertDescending(_, _)
InsertDescending(v, sorted) ==
    IF sorted = <<>> THEN <<v>>
    ELSE IF VersionLess(Head(sorted), v) THEN <<v>> \o sorted
    ELSE <<Head(sorted)>> \o InsertDescending(v, Tail(sorted))

RECURSIVE SortedDescending(_)
SortedDescending(versions) ==
    IF versions = <<>> THEN <<>>
    ELSE LET rest == SortedDescending(SubSeq(versions, 1, Len(versions) - 1))
         IN InsertDescending(versions[Len(versions)], rest)

RECURSIVE SelectSeq2(_, _, _, _)
\* the elements v of versions with versions_compatible(v, range) = wanted, in list order
SelectSeq2(versions, start, end, wanted) ==
    IF versions = <<>> THEN <<>>
    ELSE LET v == Head(versions)
             rest == SelectSeq2(Tail(versions), start, end, wanted)
         IN IF versions_compatible(v, start, end) = wanted THEN <<v>> \o rest ELSE rest

-----------------------------------------------------------------------------
(* Manual overrides (dbt_autofix/packages/manual_overrides.py) *)

EXPLICIT_ALLOW_ALL_VERSIONS == {"dbt-labs/dbt_utils", "acme/both"}

EXPLICIT_DISALLOW_ALL_VERSIONS == {"dbt-labs/logging", "acme/both"}

-----------------------------------------------------------------------------
(* DbtPackageVersion *)

FusionCompatibilityState ==
    {"EXPLICIT_ALLOW", "EXPLICIT_DISALLOW", "DBT_VERSION_RANGE_INCLUDES_2_0",
     "DBT_VERSION_RANGE_EXCLUDES_2_0", "NO_DBT_VERSION_RANGE", "UNKNOWN"}

\* DbtPackageVersion(package_version_str, require_dbt_version_range)
DbtPackageVersion(version, require_dbt_version_range) ==
    [package_version_str |-> to_version_string(version),
     version |-> version,
     require_dbt_version_range |-> require_dbt_version_range]

\* DbtPackageVersion.is_require_dbt_version_defined
is_require_dbt_version_defined(pv) == Len(pv.require_dbt_version_range) > 0

\* DbtPackageVersion.get_fusion_compatibility_state
version_get_fusion_compatibility_state(pv) ==
    IF ~is_require_dbt_version_defined(pv) THEN "NO_DBT_VERSION_RANGE"
    ELSE LET require_dbt_version ==
                 convert_version_specifiers_to_range(Some(pv.require_dbt_version_range))
         IN IF versions_compatible(FUSION_COMPATIBLE_VERSION,
                                   require_dbt_version.start, require_dbt_version.end)
            THEN "DBT_VERSION_RANGE_INCLUDES_2_0"
            ELSE "DBT_VERSION_RANGE_EXCLUDES_2_0"

-----------------------------------------------------------------------------
(* DbtPackage *)

\* variant: a declaration without specifiers yields a range that accepts no version
DbtPackage_unconstrained_accepts_none(package_name, id, source, raw, kb) ==
    [package_name |-> package_name,
     package_id |-> id,
     project_config_raw_version_specifier |-> raw,
     project_config_version_range |->
         IF raw = None \/ raw = Some(<<>>)
         THEN [start |-> Some([matcher |-> ">", version |-> <<0, 0, 0>>]),
               end |-> Some([matcher |-> "<", version |-> <<0, 0, 0>>])]
         ELSE convert_version_specifiers_to_range(raw),
     package_versions |-> <<>>,
     installed_package_version |-> None,
     latest_package_version |-> None,
     local |-> source = "local",
     tarball |-> source = "tarball",
     git |-> source = "git",
     fusion_compatible_versions |-> kb.compatible,
     fusion_incompatible_versions |-> kb.incompatible,
     unknown_compatibility_versions |-> kb.unknown,
     latest_version_fusion_compatibility |-> "UNKNOWN",
     installed_version_fusion_compatibility |-> "UNKNOWN"]

\* DbtPackage(...) and __post_init__
DbtPackage(package_name, id, source, raw, kb) ==
    [package_name |-> package_name,
     package_id |-> id,
     project_config_raw_version_specifier |-> raw,
     project_config_version_range |-> convert_version_specifiers_to_range(raw),
     package_versions |-> <<>>,
     installed_package_version |-> None,
     latest_package_version |-> None,
     local |-> source = "local",
     tarball |-> source = "tarball",
     git |-> source = "git",
     fusion_compatible_versions |-> kb.compatible,
     fusion_incompatible_versions |-> kb.incompatible,
     unknown_compatibility_versions |-> kb.unknown,
     latest_version_fusion_compatibility |-> "UNKNOWN",
     installed_version_fusion_compatibility |-> "UNKNOWN"]

\* dict lookup in package_versions (a sequence of DbtPackageVersion keyed by package_version_str)
HasVersion(p, version_str) ==
    \E i \in 1..Len(p.package_versions) : p.package_versions[i].package_version_str = version_str

VersionEntry(p, version_str) ==
    p.package_versions[CHOOSE i \in 1..Len(p.package_versions) :
                           p.package_versions[i].package_version_str = version_str]

\* DbtPackage.add_package_version
add_package_version(p, pv, installed, latest) ==
    LET p1 == IF latest
              THEN [p EXCEPT !.latest_package_version = Some(pv.version),
                             !.latest_version_fusion_compatibility =
                                 version_get_fusion_compatibility_state(pv)]
              ELSE p
    IN IF HasVersion(p1, pv.package_version_str) THEN p1
       ELSE LET p2 == [p1 EXCEPT !.package_versions = Append(@, pv)]
            IN IF installed
               THEN [p2 EXCEPT !.installed_package_version = Some(pv.version),
                               !.installed_version_fusion_compatibility =
                                   version_get_fusion_compatibility_state(pv)]
               ELSE p2

\* variant: a tarball source is not counted as private
is_public_package_tarball_forgotten(p) == ~(p.git \/ p.local)

\* DbtPackage.is_public_package
is_public_package(p) == ~(p.git \/ p.tarball \/ p.local)

\* variant: the allow set is consulted before the disallow set
is_installed_version_fusion_compatible_allow_first(p) ==
    IF p.package_id \in EXPLICIT_ALLOW_ALL_VERSIONS THEN "EXPLICIT_ALLOW"
    ELSE IF p.package_id \in EXPLICIT_DISALLOW_ALL_VERSIONS THEN "EXPLICIT_DISALLOW"
    ELSE IF p.installed_package_version = None THEN "UNKNOWN"
    ELSE LET installed_version_string == to_version_string(p.installed_package_version[1])
         IN IF ~HasVersion(p, installed_version_string) THEN "UNKNOWN"
            ELSE version_get_fusion_compatibility_state(VersionEntry(p, installed_version_string))

\* DbtPackage.is_installed_version_fusion_compatible
is_installed_version_fusion_compatible(p) ==
    IF p.package_id \in EXPLICIT_DISALLOW_ALL_VERSIONS THEN "EXPLICIT_DISALLOW"
    ELSE IF p.package_id \in EXPLICIT_ALLOW_ALL_VERSIONS THEN "EXPLICIT_ALLOW"
    ELSE IF p.installed_package_version = None THEN "UNKNOWN"
    ELSE LET installed_version_string == to_version_string(p.installed_package_version[1])
         IN IF ~HasVersion(p, installed_version_string) THEN "UNKNOWN"
            ELSE version_get_fusion_compatibility_state(VersionEntry(p, installed_version_string))

\* variant: the matches are returned in knowledge-base order, unsorted
find_fusion_compatible_versions_in_requested_range_unsorted(p) ==
    IF p.fusion_compatible_versions = None \/ Len(p.fusion_compatible_versions[1]) = 0 THEN <<>>
    ELSE SelectSeq2(p.fusion_compatible_versions[1],
                    p.project_config_version_range.start,
                    p.project_config_version_range.end, TRUE)

\* variant: the end of the declared range is not passed to versions_compatible
find_fusion_compatible_versions_in_requested_range_end_ignored(p) ==
    IF p.fusion_compatible_versions = None \/ Len(p.fusion_compatible_versions[1]) = 0 THEN <<>>
    ELSE SortedDescending(SelectSeq2(p.fusion_compatible_versions[1],
                                     p.project_config_version_range.start, None, TRUE))

\* variant: sorted without reverse=True
find_fusion_compatible_versions_in_requested_range_ascending(p) ==
    IF p.fusion_compatible_versions = None \/ Len(p.fusion_compatible_versions[1]) = 0 THEN <<>>
    ELSE LET sorted_versions ==
                 SortedDescending(SelectSeq2(p.fusion_compatible_versions[1],
                                             p.project_config_version_range.start,
                                             p.project_config_version_range.end, TRUE))
         IN [i \in 1..Len(sorted_versions) |-> sorted_versions[Len(sorted_versions) + 1 - i]]

\* DbtPackage.find_fusion_compatible_versions_in_requested_range
find_fusion_compatible_versions_in_requested_range(p) ==
    IF p.fusion_compatible_versions = None \/ Len(p.fusion_compatible_versions[1]) = 0 THEN <<>>
    ELSE SortedDescending(SelectSeq2(p.fusion_compatible_versions[1],
                                     p.project_config_version_range.start,
                                     p.project_config_version_range.end, TRUE))

\* variant: only the versions below the start of the declared range count as outside
find_fusion_compatible_versions_outside_requested_range_below_start(p) ==
    IF p.fusion_compatible_versions = None \/ Len(p.fusion_compatible_versions[1]) = 0 THEN <<>>
    ELSE SortedDescending(SelectSeq2(p.fusion_compatible_versions[1],
                                     p.project_config_version_range.start,
                                     None, FALSE))

\* DbtPackage.find_fusion_compatible_versions_outside_requested_range
find_fusion_compatible_versions_outside_requested_range(p) ==
    IF p.fusion_compatible_versions = None \/ Len(p.fusion_compatible_versions[1]) = 0 THEN <<>>
    ELSE SortedDescending(SelectSeq2(p.fusion_compatible_versions[1],
                                     p.project_config_version_range.start,
                                     p.project_config_version_range.end, FALSE))

\* DbtPackage.find_fusion_incompatible_versions_in_requested_range
find_fusion_incompatible_versions_in_requested_range(p) ==
    IF p.fusion_incompatible_versions = None \/ Len(p.fusion_incompatible_versions[1]) = 0 THEN <<>>
    ELSE SortedDescending(SelectSeq2(p.fusion_incompatible_versions[1],
                                     p.project_config_version_range.start,
                                     p.project_config_version_range.end, TRUE))

\* DbtPackage.find_fusion_unknown_versions_in_requested_range
find_fusion_unknown_versions_in_requested_range(p) ==
    IF p.unknown_compatibility_versions = None \/ Len(p.unknown_compatibility_versions[1]) = 0 THEN <<>>
    ELSE SortedDescending(SelectSeq2(p.unknown_compatibility_versions[1],
                                     p.project_config_version_range.start,
                                     p.project_config_version_range.end, TRUE))

\* variant: a package without installed version reports the version string "0.0.0"
get_installed_package_version_zero_when_unset(p) ==
    IF p.installed_package_version # None
    THEN to_version_string(p.installed_package_version[1])
    ELSE "0.0.0"

\* DbtPackage.get_installed_package_version
get_installed_package_version(p) ==
    IF p.installed_package_version # None
    THEN to_version_string(p.installed_package_version[1])
    ELSE "unknown"

\* variant: the overrides are consulted before the public-package test
get_fusion_compatibility_state_override_first(p) ==
    IF p.package_id \in EXPLICIT_DISALLOW_ALL_VERSIONS THEN "EXPLICIT_DISALLOW"
    ELSE IF p.package_id \in EXPLICIT_ALLOW_ALL_VERSIONS THEN "EXPLICIT_ALLOW"
    ELSE IF ~is_public_package(p) THEN "UNKNOWN"
    ELSE LET installed_version_fusion_compatibility == is_installed_version_fusion_compatible(p)
         IN IF installed_version_fusion_compatibility = "DBT_VERSION_RANGE_INCLUDES_2_0"
            THEN installed_version_fusion_compatibility
            ELSE IF p.fusion_compatible_versions # None /\ Len(p.fusion_compatible_versions[1]) > 0
            THEN "DBT_VERSION_RANGE_INCLUDES_2_0"
            ELSE IF /\ p.fusion_incompatible_versions # None
                    /\ Len(p.fusion_incompatible_versions[1]) > 0
                    /\ (p.unknown_compatibility_versions = None
                        \/ Len(p.unknown_compatibility_versions[1]) = 0)
            THEN "DBT_VERSION_RANGE_EXCLUDES_2_0"
            ELSE "NO_DBT_VERSION_RANGE"

\* variant: the unknown-compatibility versions are not consulted
get_fusion_compatibility_state_unknown_ignored(p) ==
    IF ~is_public_package(p) THEN "UNKNOWN"
    ELSE IF p.package_id \in EXPLICIT_DISALLOW_ALL_VERSIONS THEN "EXPLICIT_DISALLOW"
    ELSE IF p.package_id \in EXPLICIT_ALLOW_ALL_VERSIONS THEN "EXPLICIT_ALLOW"
    ELSE LET installed_version_fusion_compatibility == is_installed_version_fusion_compatible(p)
         IN IF installed_version_fusion_compatibility = "DBT_VERSION_RANGE_INCLUDES_2_0"
            THEN installed_version_fusion_compatibility
            ELSE IF p.fusion_compatible_versions # None /\ Len(p.fusion_compatible_versions[1]) > 0
            THEN "DBT_VERSION_RANGE_INCLUDES_2_0"
            ELSE IF p.fusion_incompatible_versions # None /\ Len(p.fusion_incompatible_versions[1]) > 0
            THEN "DBT_VERSION_RANGE_EXCLUDES_2_0"
            ELSE "NO_DBT_VERSION_RANGE"

\* DbtPackage.get_fusion_compatibility_state
get_fusion_compatibility_state(p) ==
    IF ~is_public_package(p) THEN "UNKNOWN"
    ELSE IF p.package_id \in EXPLICIT_DISALLOW_ALL_VERSIONS THEN "EXPLICIT_DISALLOW"
    ELSE IF p.package_id \in EXPLICIT_ALLOW_ALL_VERSIONS THEN "EXPLICIT_ALLOW"
    ELSE LET installed_version_fusion_compatibility == is_installed_version_fusion_compatible(p)
         IN IF \/ installed_version_fusion_compatibility = "DBT_VERSION_RANGE_INCLUDES_2_0"
               \/ installed_version_fusion_compatibility = "EXPLICIT_ALLOW"
            THEN installed_version_fusion_compatibility
            ELSE IF p.fusion_compatible_versions # None /\ Len(p.fusion_compatible_versions[1]) > 0
            THEN "DBT_VERSION_RANGE_INCLUDES_2_0"
            ELSE IF /\ p.fusion_incompatible_versions # None
                    /\ Len(p.fusion_incompatible_versions[1]) > 0
                    /\ (p.unknown_compatibility_versions = None
                        \/ Len(p.unknown_compatibility_versions[1]) = 0)
            THEN "DBT_VERSION_RANGE_EXCLUDES_2_0"
            ELSE "NO_DBT_VERSION_RANGE"

-----------------------------------------------------------------------------
(* DbtPackageFile *)

\* the package ids of a list of dependencies, in list order
IdsOf(deps) == [i \in 1..Len(deps) |-> deps[i].package_id]

\* deps_file.package_dependencies[package]
Dependency(deps, id) == deps[CHOOSE i \in 1..Len(deps) : deps[i].package_id = id]

\* DbtPackageFile.get_private_package_names
get_private_package_names(deps) ==
    IdsOf(SelectSeq(deps, LAMBDA p : ~is_public_package(p)))

\* DbtPackageFile.get_installed_version_fusion_compatible
get_installed_version_fusion_compatible(deps) ==
    IdsOf(SelectSeq(deps, LAMBDA p : is_installed_version_fusion_compatible(p) =
                                         "DBT_VERSION_RANGE_INCLUDES_2_0"))

\* DbtPackageFile.get_package_fusion_compatibility: the ids of each state, in dict order
\* (a state that no package has maps to the empty list instead of being an absent key)
get_package_fusion_compatibility(deps) ==
    [state \in FusionCompatibilityState |->
        IdsOf(SelectSeq(deps, LAMBDA p : get_fusion_compatibility_state(p) = state))]

-----------------------------------------------------------------------------
(* PackageVersionUpgradeResult *)

PackageVersionUpgradeResult(id, public_package, installed_version, version_reason, compatible_version) ==
    [id |-> id,
     public_package |-> public_package,
     installed_version |-> installed_version,
     version_reason |-> version_reason,
     upgraded_version |-> None,
     compatible_version |-> compatible_version]

\* PackageVersionUpgradeResult.package_should_upgrade
package_should_upgrade(r) == r.version_reason = "UPGRADE_AVAILABLE"

\* variant: any recommended version is taken as the final version
package_final_version_takes_recommendation(r) ==
    IF r.compatible_version # None THEN r.compatible_version[1] ELSE r.installed_version

\* PackageVersionUpgradeResult.package_final_version
package_final_version(r) ==
    IF package_should_upgrade(r) /\ r.upgraded_version # None
    THEN r.upgraded_version[1]
    ELSE r.installed_version

\* PackageVersionUpgradeResult.to_dict
to_dict(r) ==
    [id |-> r.id, version |-> package_final_version(r), log |-> <<r.version_reason>>]

-----------------------------------------------------------------------------
(* check_for_package_upgrades, step by step.  acc is the pair of locals     *)
(* (package_version_upgrade_results, packages_to_check) plus the raised flag *)

\* variant: the result is put at the front of the list (results.insert(0, r))
Emit_at_front(acc, r) ==
    IF acc.raised THEN acc
    ELSE IF r.id \notin acc.to_check
    THEN [results |-> <<r>> \o acc.results, to_check |-> acc.to_check, raised |-> TRUE]
    ELSE [results |-> <<r>> \o acc.results, to_check |-> acc.to_check \ {r.id}, raised |-> FALSE]

\* results.append(r); packages_to_check.remove(r.id)   (set.remove raises KeyError)
Emit(acc, r) ==
    IF acc.raised THEN acc
    ELSE IF r.id \notin acc.to_check
    THEN [results |-> Append(acc.results, r), to_check |-> acc.to_check, raised |-> TRUE]
    ELSE [results |-> Append(acc.results, r), to_check |-> acc.to_check \ {r.id}, raised |-> FALSE]

\* if package not in packages_to_check: continue
EmitIfUnchecked(acc, r) == IF r.id \notin acc.to_check THEN acc ELSE Emit(acc, r)

RECURSIVE EmitAll(_, _)
EmitAll(rs, acc) == IF rs = <<>> THEN acc ELSE EmitAll(Tail(rs), Emit(acc, Head(rs)))

RECURSIVE EmitAllUnchecked(_, _)
EmitAllUnchecked(rs, acc) ==
    IF rs = <<>> THEN acc ELSE EmitAllUnchecked(Tail(rs), EmitIfUnchecked(acc, Head(rs)))

\* one result with the given reason for each id of ids
ResultsFor(deps, ids, public_package, version_reason) ==
    [i \in 1..Len(ids) |->
        PackageVersionUpgradeResult(ids[i], public_package,
                                    get_installed_package_version(Dependency(deps, ids[i])),
                                    version_reason, None)]

\* private packages
private_packages_step(deps, acc) ==
    EmitAll(ResultsFor(deps, get_private_package_names(deps), FALSE,
                       "PRIVATE_PACKAGE_MISSING_REQUIRE_DBT_VERSION"), acc)

\* variant: the step lacks the `if package not in packages_to_check: continue` guard
already_compatible_step_unguarded(deps, acc) ==
    EmitAll(ResultsFor(deps, get_installed_version_fusion_compatible(deps), TRUE,
                       "NO_UPGRADE_REQUIRED"), acc)

\* variant: the step is missing
already_compatible_step_skipped(deps, acc) == acc

\* already compatible
already_compatible_step(deps, acc) ==
    EmitAllUnchecked(ResultsFor(deps, get_installed_version_fusion_compatible(deps), TRUE,
                                "NO_UPGRADE_REQUIRED"), acc)

\* all public versions are incompatible with Fusion
excludes_step(deps, acc, compatibility) ==
    EmitAllUnchecked(ResultsFor(deps, compatibility["DBT_VERSION_RANGE_EXCLUDES_2_0"],
                                TRUE, "PUBLIC_PACKAGE_NOT_COMPATIBLE_WITH_FUSION"), acc)

\* variant: the step reports the reason of the step copied from
no_version_range_step_copied_reason(deps, acc, compatibility) ==
    EmitAllUnchecked(ResultsFor(deps, compatibility["NO_DBT_VERSION_RANGE"],
                                TRUE, "PUBLIC_PACKAGE_NOT_COMPATIBLE_WITH_FUSION"), acc)

\* all public versions don't define dbt version range
no_version_range_step(deps, acc, compatibility) ==
    EmitAllUnchecked(ResultsFor(deps, compatibility["NO_DBT_VERSION_RANGE"],
                                TRUE, "PUBLIC_PACKAGE_MISSING_FUSION_ELIGIBILITY"), acc)

\* variant: the out-of-range candidates are looked at first
individual_version_result_outside_first(dbt_package) ==
    LET installed_package_version == get_installed_package_version(dbt_package)
        versions_within_config == find_fusion_compatible_versions_in_requested_range(dbt_package)
        versions_outside_config == find_fusion_compatible_versions_outside_requested_range(dbt_package)
    IN IF Len(versions_outside_config) > 0
       THEN Some(PackageVersionUpgradeResult(dbt_package.package_id, TRUE, installed_package_version,
                                             "PUBLIC_PACKAGE_FUSION_COMPATIBLE_VERSION_EXCEEDS_PROJECT_CONFIG",
                                             Some(to_version_string(versions_outside_config[1]))))
       ELSE IF Len(versions_within_config) > 0
       THEN Some(PackageVersionUpgradeResult(dbt_package.package_id, TRUE, installed_package_version,
                                             "UPGRADE_AVAILABLE",
                                             Some(to_version_string(versions_within_config[1]))))
       ELSE None

\* the result of the individual-version check of one package, None when it has no candidate
individual_version_result(dbt_package) ==
    LET installed_package_version == get_installed_package_version(dbt_package)
        versions_within_config == find_fusion_compatible_versions_in_requested_range(dbt_package)
        versions_outside_config == find_fusion_compatible_versions_outside_requested_range(dbt_package)
    IN IF Len(versions_within_config) > 0
       THEN Some(PackageVersionUpgradeResult(dbt_package.package_id, TRUE, installed_package_version,
                                             "UPGRADE_AVAILABLE",
                                             Some(to_version_string(versions_within_config[1]))))
       ELSE IF Len(versions_outside_config) > 0
       THEN Some(PackageVersionUpgradeResult(dbt_package.package_id, TRUE, installed_package_version,
                                             "PUBLIC_PACKAGE_FUSION_COMPATIBLE_VERSION_EXCEEDS_PROJECT_CONFIG",
                                             Some(to_version_string(versions_outside_config[1]))))
       ELSE None

\* otherwise, check individual versions
individual_versions_step(deps, acc) ==
    LET candidates == [i \in 1..Len(deps) |-> individual_version_result(deps[i])]
        found == SelectSeq(candidates, LAMBDA r : r # None)
    IN EmitAllUnchecked([i \in 1..Len(found) |-> found[i][1]], acc)

\* fallback: order is the iteration order of the set packages_to_check
fallback_step(deps, acc, order) ==
    [results |-> acc.results \o
                 [i \in 1..Len(order) |->
                     PackageVersionUpgradeResult(order[i],
                                                 is_public_package(Dependency(deps, order[i])),
                                                 get_installed_package_version(Dependency(deps, order[i])),
                                                 "PUBLIC_PACKAGE_MISSING_FUSION_ELIGIBILITY", None)],
     to_check |-> acc.to_check,
     raised |-> acc.raised]

\* the orders in which a set can be iterated
Orders(S) == {o \in [1..Cardinality(S) -> S] : \A i, j \in 1..Cardinality(S) : o[i] = o[j] => i = j}

-----------------------------------------------------------------------------
(* Inputs: the manifests, installed facts and knowledge-base entries the    *)
(* engine is run on                                                         *)

SeqsUpTo(S, n) == UNION {[1..k -> S] : k \in 0..n}

Specifier(matcher, version) == [matcher |-> matcher, version |-> version]

\* how a manifest entry names its source
Sources == {"package", "local", "git", "tarball"}

\* the `version` of a manifest entry: absent, two ranges, a pin
RawSpecifiers ==
    {None,
     Some(<<Specifier(">=", <<1, 0, 0>>), Specifier("<", <<1, 5, 0>>)>>),
     Some(<<Specifier(">=", <<1, 0, 0>>), Specifier("<", <<2, 0, 0>>)>>),
     Some(<<Specifier("=", <<1, 2, 0>>)>>)}

\* require-dbt-version of an installed package: absent, excluding 2.0.0, including 2.0.0
RequireDbtVersions ==
    {<<>>,
     <<Specifier(">=", <<1, 0, 0>>), Specifier("<", <<2, 0, 0>>)>>,
     <<Specifier(">=", <<1, 0, 0>>), Specifier("<", <<3, 0, 0>>)>>}

InstalledVersions == {<<1, 2, 0>>, <<1, 10, 0>>}

\* what the installed-package scan found for a dependency
InstalledFacts ==
    {None} \cup {Some(DbtPackageVersion(v, r)) : v \in InstalledVersions, r \in RequireDbtVersions}

NoKnowledge == [compatible |-> None, incompatible |-> None, unknown |-> None]

\* knowledge-base entries: absent, or three version lists
KnowledgeBaseEntries ==
    {NoKnowledge} \cup
    {[compatible |-> Some(c), incompatible |-> Some(i), unknown |-> Some(u)] :
        c \in SeqsUpTo(Versions, MaxVersions),
        i \in {<<>>, << <<0, 9, 9>> >>},
        u \in {<<>>, << <<1, 2, 0>> >>}}

\* str.split("/") on the package ids of the model; an id without "/" is its own only part
split(package_id) ==
    CASE package_id = "org/pkg" -> <<"org", "pkg">>
      [] package_id = "org/ranged" -> <<"org", "ranged">>
      [] package_id = "org/incompatible" -> <<"org", "incompatible">>
      [] package_id = "acme/both" -> <<"acme", "both">>
      [] package_id = "acme/dbt_utils" -> <<"acme", "dbt_utils">>
      [] package_id = "dbt-labs/dbt_utils" -> <<"dbt-labs", "dbt_utils">>
      [] package_id = "dbt-labs/logging" -> <<"dbt-labs", "logging">>
      [] package_id = "dbt-labs/snowplow" -> <<"dbt-labs", "snowplow">>
      [] package_id = "Matts52/dbt_set_similarity" -> <<"Matts52", "dbt_set_similarity">>
      [] package_id = "Matts52/dbt_stat_test" -> <<"Matts52", "dbt_stat_test">>
      [] package_id = "avohq/avo_audit" -> <<"avohq", "avo_audit">>
      [] package_id = "MaterializeInc/materialize_dbt_utils" -> <<"MaterializeInc", "materialize_dbt_utils">>
      [] OTHER -> <<package_id>>

\* package_name = package_id.split("/")[-1]
package_name_of(package_id) == split(package_id)[Len(split(package_id))]

\* a dependency as generate_package_dependencies leaves it: parsed, then merged with its installed fact
LoadedPackage(id, source, raw, kb, fact) ==
    IF fact = None THEN DbtPackage(package_name_of(id), id, source, raw, kb)
    ELSE add_package_version(DbtPackage(package_name_of(id), id, source, raw, kb),
                             fact[1], TRUE, FALSE)

SubjectIds == {"org/pkg", "dbt-labs/dbt_utils", "dbt-labs/logging", "acme/both"}

\* the full input space of one dependency
SubjectPackages ==
    {LoadedPackage(id, source, raw, kb, fact) :
        id \in SubjectIds, source \in Sources, raw \in RawSpecifiers,
        kb \in KnowledgeBaseEntries, fact \in InstalledFacts}

Range_1_0_to_2_0 == Some(<<Specifier(">=", <<1, 0, 0>>), Specifier("<", <<2, 0, 0>>)>>)
Includes_2_0 == <<Specifier(">=", <<1, 0, 0>>), Specifier("<", <<3, 0, 0>>)>>
Knowledge(c, i, u) == [compatible |-> Some(c), incompatible |-> Some(i), unknown |-> Some(u)]

\* the dependencies of the unit-test project (test_package_upgrade.py), plus private and
\* exhaustively incompatible ones
FixturePackages ==
    {LoadedPackage("dbt-labs/dbt_utils", "package", Range_1_0_to_2_0,
                   Knowledge(<< <<1, 10, 0>> >>, <<>>, <<>>), Some(DbtPackageVersion(<<1, 2, 0>>, <<>>))),
     LoadedPackage("dbt-labs/logging", "package", Range_1_0_to_2_0,
                   NoKnowledge, Some(DbtPackageVersion(<<1, 2, 0>>, <<>>))),
     LoadedPackage("dbt-labs/snowplow", "package", Range_1_0_to_2_0,
                   Knowledge(<<>>, << <<0, 9, 9>> >>, <<>>), Some(DbtPackageVersion(<<1, 2, 0>>, Includes_2_0))),
     LoadedPackage("Matts52/dbt_set_similarity", "package", Range_1_0_to_2_0,
                   Knowledge(<< <<1, 2, 0>>, <<1, 10, 0>> >>, << <<0, 9, 9>> >>, <<>>),
                   Some(DbtPackageVersion(<<1, 2, 0>>, <<>>))),
     LoadedPackage("Matts52/dbt_stat_test", "package", Some(<<Specifier("=", <<1, 2, 0>>)>>),
                   Knowledge(<< <<1, 10, 0>> >>, <<>>, <<>>), Some(DbtPackageVersion(<<1, 2, 0>>, <<>>))),
     LoadedPackage("avohq/avo_audit", "package", Range_1_0_to_2_0,
                   Knowledge(<<>>, <<>>, << <<1, 2, 0>> >>), Some(DbtPackageVersion(<<1, 2, 0>>, <<>>))),
     LoadedPackage("MaterializeInc/materialize_dbt_utils", "package", None,
                   Knowledge(<< <<0, 9, 9>> >>, <<>>, <<>>), Some(DbtPackageVersion(<<1, 10, 0>>, <<>>))),
     LoadedPackage("org/incompatible", "package", None,
                   Knowledge(<<>>, << <<0, 9, 9>> >>, <<>>), None),
     LoadedPackage("org/ranged", "package", Range_1_0_to_2_0,
                   Knowledge(<< <<1, 5, 0>>, <<2, 0, 0>> >>, << <<0, 9, 9>> >>, <<>>), None),
     LoadedPackage("acme/both", "package", None, NoKnowledge, None),
     LoadedPackage("package_0", "local", None, NoKnowledge, None),
     LoadedPackage("package_1", "git", None, NoKnowledge, Some(DbtPackageVersion(<<1, 2, 0>>, Includes_2_0)))}

\* the manifests: empty, one dependency over the full input space, or several of the fixtures
PackageFiles ==
    {<<>>} \cup {<<p>> : p \in SubjectPackages} \cup
    {f \in UNION {[1..n -> FixturePackages] : n \in 2..MaxPackages} :
        \A i, j \in 1..Len(f) : f[i].package_id = f[j].package_id => i = j}

\* yml_dependencies: the manifest entries as written
ManifestOf(deps) ==
    [i \in 1..Len(deps) |->
        [package |-> deps[i].package_id, version |-> deps[i].project_config_raw_version_specifier]]

NoBuckets ==
    [packages_with_upgrades |-> <<>>, packages_with_forced_upgrades |-> <<>>,
     packages_with_no_change |-> <<>>, dry_run |-> None, override_pinned_version |-> None]

-----------------------------------------------------------------------------
(* The state machine *)

Init ==
    /\ package_dependencies \in PackageFiles
    /\ manifest = ManifestOf(package_dependencies)
    /\ packages_to_check = {}
    /\ results = <<>>
    /\ raised = FALSE
    /\ package_fusion_compatibility = [state \in FusionCompatibilityState |-> <<>>]
    /\ buckets = NoBuckets
    /\ first_results = None
    /\ iteration_order = None
    /\ root_dir = None
    /\ dependency_path = None
    /\ lookup = None
    /\ log = <<>>
    /\ call = None
    /\ text_file = None
    /\ python_file = None
    /\ pc = "start"

Acc == [results |-> results, to_check |-> packages_to_check, raised |-> raised]

\* variant: the range queries sort the knowledge-base list of the package itself
\* (list.sort(reverse=True) on self.fusion_compatible_versions instead of sorted(...))
Continue_sorting_in_place(acc, next) ==
    /\ results' = acc.results
    /\ packages_to_check' = acc.to_check
    /\ raised' = acc.raised
    /\ pc' = IF acc.raised THEN "raised" ELSE next
    /\ package_dependencies' =
          [i \in 1..Len(package_dependencies) |->
              IF package_dependencies[i].fusion_compatible_versions = None
              THEN package_dependencies[i]
              ELSE [package_dependencies[i] EXCEPT !.fusion_compatible_versions =
                       Some(SortedDescending(@[1]))]]
    /\ UNCHANGED <<buckets, manifest, first_results, root_dir, dependency_path, lookup, log, call, text_file, python_file>>

\* leave a step of check_for_package_upgrades with the locals of acc
Continue(acc, next) ==
    /\ results' = acc.results
    /\ packages_to_check' = acc.to_check
    /\ raised' = acc.raised
    /\ pc' = IF acc.raised THEN "raised" ELSE next
    /\ UNCHANGED <<package_dependencies, buckets, manifest, first_results,
                   root_dir, dependency_path, lookup, log, call, text_file, python_file>>

\* a step that leaves package_fusion_compatibility alone and iterates no set
Step(acc, next) ==
    Continue(acc, next) /\ UNCHANGED <<package_fusion_compatibility, iteration_order>>

\* variant: the result list outlives the call (a module-level list)
CheckStart_results_kept ==
    /\ pc = "start"
    /\ Step([results |-> results,
             to_check |-> {package_dependencies[i].package_id : i \in 1..Len(package_dependencies)},
             raised |-> FALSE], "private")

\* packages_to_check = set(deps_file.package_dependencies); results = []
CheckStart ==
    /\ pc = "start"
    /\ Step([results |-> <<>>,
             to_check |-> {package_dependencies[i].package_id : i \in 1..Len(package_dependencies)},
             raised |-> FALSE], "private")

CheckPrivatePackages ==
    /\ pc = "private"
    /\ Step(private_packages_step(package_dependencies, Acc), "compatible")

CheckAlreadyCompatible ==
    /\ pc = "compatible"
    /\ Step(already_compatible_step(package_dependencies, Acc), "excludes")

CheckExcludes ==
    /\ pc = "excludes"
    /\ package_fusion_compatibility' = get_package_fusion_compatibility(package_dependencies)
    /\ Continue(excludes_step(package_dependencies, Acc, package_fusion_compatibility'), "no_range")
    /\ UNCHANGED iteration_order

CheckNoVersionRange ==
    /\ pc = "no_range"
    /\ Step(no_version_range_step(package_dependencies, Acc, package_fusion_compatibility),
            "individual")

\* exit if all packages are accounted for (optimistic)
CheckReturnEarly ==
    /\ pc = "individual"
    /\ Cardinality(packages_to_check) = 0
    /\ Step(Acc, "done")

CheckIndividualVersions ==
    /\ pc = "individual"
    /\ Cardinality(packages_to_check) # 0
    /\ Step(individual_versions_step(package_dependencies, Acc), "fallback")

\* `for package in packages_to_check` iterates a set of strings: the order follows from the
\* hashes of the ids, which are fixed for the process, and from the insertions and removals,
\* which are those of every call on this file; any order is possible, the same at every call
CheckFallback ==
    /\ pc = "fallback"
    /\ \E order \in Orders(packages_to_check) :
          /\ iteration_order = None \/ iteration_order = Some(order)
          /\ iteration_order' = Some(order)
          /\ Continue(fallback_step(package_dependencies, Acc, order), "done")
          /\ UNCHANGED package_fusion_compatibility

\* upgrade_package_versions(deps_file, results, dry_run, override_pinned_version, json_output)
upgrade_package_versions(rs, dry_run, override_pinned_version) ==
    LET upgrade(r) == r.version_reason = "UPGRADE_AVAILABLE"
        forced(r) == /\ ~upgrade(r)
                     /\ r.version_reason = "PUBLIC_PACKAGE_FUSION_COMPATIBLE_VERSION_EXCEEDS_PROJECT_CONFIG"
        no_change(r) == ~upgrade(r) /\ ~forced(r)
    IN [packages_with_upgrades |-> SelectSeq(rs, upgrade),
        packages_with_forced_upgrades |-> SelectSeq(rs, forced),
        packages_with_no_change |-> SelectSeq(rs, no_change),
        dry_run |-> dry_run,
        override_pinned_version |-> override_pinned_version]

UpgradePackageVersions ==
    /\ pc = "done"
    /\ \E dry_run \in BOOLEAN, override_pinned_version \in BOOLEAN :
          buckets' = upgrade_package_versions(results, dry_run, override_pinned_version)
    /\ pc' = "applied"
    /\ UNCHANGED <<package_dependencies, packages_to_check, results, raised,
                   package_fusion_compatibility, manifest, first_results, iteration_order,
                   root_dir, dependency_path, lookup, log, call, text_file, python_file>>

Next ==
    \/ CheckStart
    \/ CheckPrivatePackages
    \/ CheckAlreadyCompatible
    \/ CheckExcludes
    \/ CheckNoVersionRange
    \/ CheckReturnEarly
    \/ CheckIndividualVersions
    \/ CheckFallback
    \/ UpgradePackageVersions

Spec == Init /\ [][Next]_vars

-----------------------------------------------------------------------------
(* check_for_package_upgrades run a second time on the same DbtPackageFile *)

\* the returned list is kept and check_for_package_upgrades(deps_file) runs again: called
\* again in this process, or in a new process (a new run of the tool) on the same file
CheckAgain ==
    /\ pc = "done"
    /\ first_results = None
    /\ \E same_process \in BOOLEAN :
          /\ first_results' = Some([returned |-> results, same_process |-> same_process])
          /\ iteration_order' = IF same_process THEN iteration_order ELSE None
    /\ pc' = "start"
    /\ UNCHANGED <<package_dependencies, packages_to_check, results, raised,
                   package_fusion_compatibility, buckets, manifest,
                   root_dir, dependency_path, lookup, log, call, text_file, python_file>>

\* the manifests of the fixture packages
InitRerun ==
    /\ Init
    /\ \A i \in 1..Len(package_dependencies) : package_dependencies[i] \in FixturePackages

NextRerun == Next \/ CheckAgain

SpecRerun == InitRerun /\ [][NextRerun]_vars

-----------------------------------------------------------------------------
(* generate_package_dependencies: find the manifest files, load and parse one of *)
(* them, scan the installed packages and merge them into the DbtPackageFile     *)

\* most manifest files of one name found below the project directory
MaxManifests == 2
\* most entries of the packages list of a manifest
MaxEntries == 2

VALID_PACKAGE_YML_NAMES == {"packages.yml", "dependencies.yml"}

\* one entry of the packages list: the `package` key if present, the private-source key
\* if any, the `version` key if present
ManifestEntry(package, source, version) ==
    [package |-> package, source |-> source, version |-> version]

\* a parsed yml mapping: whether it has the key `packages` (absent, present with a null
\* value, present with a list), the list, and whether it has any other key
ParsedYml(packages_key, packages, other_keys) ==
    [packages_key |-> packages_key, packages |-> packages, other_keys |-> other_keys]

\* {}
EmptyMapping == ParsedYml("absent", <<>>, FALSE)

\* a file on disk: whether read_file can read and parse it, and the mapping it then yields
YmlFile(readable, parsed) == [readable |-> readable, parsed |-> parsed]

\* load_yaml_from_packages_yml: the mapping and what is logged
load_yaml_from_packages_yml(path_name, file) ==
    IF path_name # "packages.yml"
    THEN [value |-> EmptyMapping, log |-> <<"File must be packages.yml">>]
    ELSE IF ~file.readable
    THEN [value |-> EmptyMapping, log |-> <<"Error when parsing package file " \o path_name>>]
    ELSE IF file.parsed = EmptyMapping
    THEN [value |-> EmptyMapping, log |-> <<"No content parsed">>]
    ELSE [value |-> file.parsed, log |-> <<>>]

\* load_yaml_from_dependencies_yml
load_yaml_from_dependencies_yml(path_name, file) ==
    IF path_name # "dependencies.yml"
    THEN [value |-> EmptyMapping, log |-> <<"File must be dependencies.yml">>]
    ELSE IF ~file.readable
    THEN [value |-> EmptyMapping, log |-> <<"Error when parsing package file " \o path_name>>]
    ELSE IF file.parsed = EmptyMapping
    THEN [value |-> EmptyMapping, log |-> <<"No content parsed">>]
    ELSE [value |-> file.parsed, log |-> <<>>]

\* DbtPackageFile.add_package_dependency, on the pair (package_dependencies, log)
add_package_dependency(file, package_id, package) ==
    IF \E i \in 1..Len(file.package_dependencies) :
           file.package_dependencies[i].package_id = package_id
    THEN [file EXCEPT !.log = Append(@, package_id \o " is already in the dependencies")]
    ELSE [file EXCEPT !.package_dependencies = Append(@, package)]

\* the loop of parse_package_dependencies_from_yml, from the entry at position idx on
RECURSIVE parse_entries(_, _, _)
parse_entries(package_dict, idx, file) ==
    IF idx > Len(package_dict) THEN file
    ELSE LET package == package_dict[idx]
             package_id == IF package.package = None
                           THEN "package_" \o NatToString(idx - 1)
                           ELSE package.package[1]
             new_package == DbtPackage(package_name_of(package_id), package_id,
                                       package.source, package.version, NoKnowledge)
         IN parse_entries(package_dict, idx + 1,
                          add_package_dependency(file, package_id, new_package))

\* variant: a mapping without the packages key is read as an empty list of packages
parse_package_dependencies_from_yml_missing_key_as_empty(parsed_yml, package_file_name) ==
    IF parsed_yml.packages_key = "null"
    THEN [deps_file |-> None, log |-> <<>>, raised |-> TRUE]
    ELSE LET file == parse_entries(parsed_yml.packages, 1,
                                   [package_file_name |-> package_file_name,
                                    yml_dependencies |-> parsed_yml.packages,
                                    package_dependencies |-> <<>>,
                                    log |-> <<>>])
         IN [deps_file |-> Some(file), log |-> file.log, raised |-> FALSE]

\* parse_package_dependencies_from_yml: the DbtPackageFile if any, what is logged, and
\* whether it raised (enumerate(None) when the packages key has a null value)
parse_package_dependencies_from_yml(parsed_yml, package_file_name) ==
    IF parsed_yml.packages_key = "absent"
    THEN [deps_file |-> None, log |-> <<"YML must contain packages key">>, raised |-> FALSE]
    ELSE IF parsed_yml.packages_key = "null"
    THEN [deps_file |-> None, log |-> <<>>, raised |-> TRUE]
    ELSE LET file == parse_entries(parsed_yml.packages, 1,
                                   [package_file_name |-> package_file_name,
                                    yml_dependencies |-> parsed_yml.packages,
                                    package_dependencies |-> <<>>,
                                    log |-> <<>>])
         IN [deps_file |-> Some(file), log |-> file.log, raised |-> FALSE]

parse_package_dependencies_from_packages_yml(parsed_packages_yml) ==
    parse_package_dependencies_from_yml(parsed_packages_yml, "packages.yml")

parse_package_dependencies_from_dependencies_yml(parsed_dependencies_yml) ==
    parse_package_dependencies_from_yml(parsed_dependencies_yml, "dependencies.yml")

\* dict lookup in the mapping from package name to package id (a list of pairs, in
\* insertion order)
InLookup(table, package_name) ==
    \E i \in 1..Len(table) : table[i].package_name = package_name

LookupId(table, package_name) ==
    table[CHOOSE i \in 1..Len(table) : table[i].package_name = package_name].package_id

\* variant: on a duplicate name the id registered last replaces the earlier one
RECURSIVE get_reverse_lookup_by_package_name_last_wins(_, _, _)
get_reverse_lookup_by_package_name_last_wins(deps, idx, acc) ==
    IF idx > Len(deps) THEN acc
    ELSE LET package_id == deps[idx].package_id
             package_name == deps[idx].package_name
         IN get_reverse_lookup_by_package_name_last_wins(deps, idx + 1,
                IF InLookup(acc.lookup, package_name)
                THEN [lookup |-> [i \in 1..Len(acc.lookup) |->
                                     IF acc.lookup[i].package_name = package_name
                                     THEN [package_name |-> package_name, package_id |-> package_id]
                                     ELSE acc.lookup[i]],
                      log |-> Append(acc.log, "Duplicate package name " \o package_name
                                               \o " for package_id " \o package_id)]
                ELSE [acc EXCEPT !.lookup = Append(@, [package_name |-> package_name,
                                                       package_id |-> package_id])])

\* DbtPackageFile.get_reverse_lookup_by_package_name, from the dependency at position idx
\* on: the mapping built and what is logged
RECURSIVE get_reverse_lookup_by_package_name(_, _, _)
get_reverse_lookup_by_package_name(deps, idx, acc) ==
    IF idx > Len(deps) THEN acc
    ELSE LET package_id == deps[idx].package_id
             package_name == deps[idx].package_name
         IN get_reverse_lookup_by_package_name(deps, idx + 1,
                IF InLookup(acc.lookup, package_name)
                THEN [acc EXCEPT !.log = Append(@, "Duplicate package name " \o package_name
                                                   \o " for package_id " \o package_id)]
                ELSE [acc EXCEPT !.lookup = Append(@, [package_name |-> package_name,
                                                       package_id |-> package_id])])

\* the loop of DbtPackageFile.merge_installed_versions over the installed packages
RECURSIVE merge_each(_, _, _)
merge_each(deps, table, installed_packages) ==
    IF installed_packages = <<>> THEN deps
    ELSE LET installed == Head(installed_packages)
         IN IF ~InLookup(table, installed.package_name)
            THEN merge_each(deps, table, Tail(installed_packages))
            ELSE LET package_id == LookupId(table, installed.package_name)
                     merged == [i \in 1..Len(deps) |->
                                   IF deps[i].package_id = package_id
                                   THEN add_package_version(deps[i], installed.version, TRUE, FALSE)
                                   ELSE deps[i]]
                 IN merge_each(merged, table, Tail(installed_packages))

\* DbtPackageFile.merge_installed_versions
merge_installed_versions(deps, installed_packages) ==
    LET built == get_reverse_lookup_by_package_name(deps, 1, [lookup |-> <<>>, log |-> <<>>])
    IN [package_dependencies |-> merge_each(deps, built.lookup, installed_packages),
        lookup |-> built.lookup,
        log |-> built.log]

\* the number of entries of files with the given name
RECURSIVE CountName(_, _)
CountName(files, name) ==
    IF files = <<>> THEN 0
    ELSE (IF Head(files) = name THEN 1 ELSE 0) + CountName(Tail(files), name)

\* find_package_yml_files: the lists it can return, the glob results being iterated as a set
find_package_yml_files(dir) ==
    {files \in [1..(dir.found.packages_yml + dir.found.dependencies_yml) -> VALID_PACKAGE_YML_NAMES] :
        /\ CountName(files, "packages.yml") = dir.found.packages_yml
        /\ CountName(files, "dependencies.yml") = dir.found.dependencies_yml}

\* variant: of one packages.yml and one dependencies.yml, dependencies.yml is kept
select_dependency_path_dependencies_yml_kept(package_dependencies_yml_files) ==
    LET package_yml_count == CountName(package_dependencies_yml_files, "packages.yml")
        dependencies_yml_count == CountName(package_dependencies_yml_files, "dependencies.yml")
    IN IF Len(package_dependencies_yml_files) = 1
       THEN [outcome |-> "path", path |-> Some(package_dependencies_yml_files[1]), log |-> <<>>]
       ELSE IF package_yml_count > 1 \/ dependencies_yml_count > 1
       THEN [outcome |-> "return", path |-> None,
             log |-> <<"Project must contain exactly one projects.yml or dependencies.yml, found "
                       \o NatToString(Len(package_dependencies_yml_files))>>]
       ELSE IF package_yml_count = 1 /\ dependencies_yml_count = 1
       THEN [outcome |-> "path", path |-> Some("dependencies.yml"),
             log |-> <<"Project contains both packages.yml and dependencies.yml, package dependencies will only be loaded from packages.yml">>]
       ELSE [outcome |-> "raise", path |-> None, log |-> <<>>]

\* generate_package_dependencies up to dependency_path = package_dependencies_yml_files[0]:
\* the path read, a return without a file, or the IndexError of [0] on the empty list
select_dependency_path(package_dependencies_yml_files) ==
    LET package_yml_count == CountName(package_dependencies_yml_files, "packages.yml")
        dependencies_yml_count == CountName(package_dependencies_yml_files, "dependencies.yml")
    IN IF Len(package_dependencies_yml_files) = 1
       THEN [outcome |-> "path", path |-> Some(package_dependencies_yml_files[1]), log |-> <<>>]
       ELSE IF package_yml_count > 1 \/ dependencies_yml_count > 1
       THEN [outcome |-> "return", path |-> None,
             log |-> <<"Project must contain exactly one projects.yml or dependencies.yml, found "
                       \o NatToString(Len(package_dependencies_yml_files))>>]
       ELSE IF package_yml_count = 1 /\ dependencies_yml_count = 1
       THEN [outcome |-> "path", path |-> Some("packages.yml"),
             log |-> <<"Project contains both packages.yml and dependencies.yml, package dependencies will only be loaded from packages.yml">>]
       ELSE [outcome |-> "raise", path |-> None, log |-> <<>>]

\* the entries a manifest is written with: two public packages of the same bare name, an
\* overridden public package, a local package without the `package` key, and an entry
\* `- private: org/repo`, which has none of the keys package, local, git, tarball
ManifestEntries ==
    {ManifestEntry(Some("dbt-labs/dbt_utils"), "package", Range_1_0_to_2_0),
     ManifestEntry(Some("acme/dbt_utils"), "package", None),
     ManifestEntry(Some("dbt-labs/logging"), "package", None),
     ManifestEntry(None, "local", None),
     ManifestEntry(None, "private", None)}

\* no such file in the project
NoFile == YmlFile(FALSE, EmptyMapping)

\* what a manifest file can hold: nothing readable, an empty mapping, a mapping without the
\* packages key, a packages key without a value, a list of up to MaxEntries entries
Documents ==
    {YmlFile(FALSE, EmptyMapping),
     YmlFile(TRUE, EmptyMapping),
     YmlFile(TRUE, ParsedYml("absent", <<>>, TRUE)),
     YmlFile(TRUE, ParsedYml("null", <<>>, FALSE))} \cup
    {YmlFile(TRUE, ParsedYml("list", entries, FALSE)) : entries \in SeqsUpTo(ManifestEntries, MaxEntries)}

\* the project directories: how many files of each name are found below it, and what the
\* files of each name hold
Projects ==
    {dir \in [found : [packages_yml : 0..MaxManifests, dependencies_yml : 0..MaxManifests],
              packages_yml : Documents, dependencies_yml : Documents] :
        /\ dir.found.packages_yml = 0 => dir.packages_yml = NoFile
        /\ dir.found.dependencies_yml = 0 => dir.dependencies_yml = NoFile}

InstalledPackage(package_name, version) == [package_name |-> package_name, version |-> version]

\* what get_current_installed_package_versions can return, by package name, or that it raised
\* (no dbt_project.yml in the project directory)
InstalledScans ==
    {[raised |-> TRUE, installed |-> <<>>],
     [raised |-> FALSE, installed |-> <<>>],
     [raised |-> FALSE,
      installed |-> <<InstalledPackage("dbt_utils", DbtPackageVersion(<<1, 2, 0>>, <<>>))>>],
     [raised |-> FALSE,
      installed |-> <<InstalledPackage("logging", DbtPackageVersion(<<1, 10, 0>>, Includes_2_0)),
                      InstalledPackage("dbt_utils", DbtPackageVersion(<<1, 2, 0>>, Includes_2_0)),
                      InstalledPackage("private_pkg", DbtPackageVersion(<<0, 9, 9>>, <<>>))>>]}

InitLoad ==
    /\ root_dir \in {Some(dir) : dir \in Projects}
    /\ pc = "find"
    /\ package_dependencies = <<>>
    /\ manifest = <<>>
    /\ dependency_path = None
    /\ lookup = None
    /\ log = <<>>
    /\ packages_to_check = {}
    /\ results = <<>>
    /\ raised = FALSE
    /\ package_fusion_compatibility = [state \in FusionCompatibilityState |-> <<>>]
    /\ buckets = NoBuckets
    /\ first_results = None
    /\ iteration_order = None
    /\ call = None
    /\ text_file = None
    /\ python_file = None

\* package_dependencies_yml_files = find_package_yml_files(root_dir) and the choice of the
\* file to read
GenerateFind ==
    /\ pc = "find"
    /\ \E package_dependencies_yml_files \in find_package_yml_files(root_dir[1]) :
          LET selected == select_dependency_path(package_dependencies_yml_files)
              found_log == IF Len(package_dependencies_yml_files) = 0
                           THEN <<"No package YML files found">> ELSE <<>>
          IN /\ log' = log \o found_log \o selected.log
             /\ dependency_path' = selected.path
             /\ pc' = CASE selected.outcome = "path" -> "parse"
                        [] selected.outcome = "return" -> "failed"
                        [] OTHER -> "raised"
    /\ UNCHANGED <<package_dependencies, manifest, lookup, packages_to_check, results, raised,
                   package_fusion_compatibility, buckets, first_results, iteration_order,
                   root_dir, call, text_file, python_file>>

\* the manifest is loaded and parsed; generate_package_dependencies returns if nothing was parsed
GenerateParse ==
    /\ pc = "parse"
    /\ LET dependency_yaml ==
               IF dependency_path[1] = "packages.yml"
               THEN load_yaml_from_packages_yml(dependency_path[1], root_dir[1].packages_yml)
               ELSE load_yaml_from_dependencies_yml(dependency_path[1], root_dir[1].dependencies_yml)
           parsed ==
               IF dependency_path[1] = "packages.yml"
               THEN parse_package_dependencies_from_packages_yml(dependency_yaml.value)
               ELSE parse_package_dependencies_from_dependencies_yml(dependency_yaml.value)
       IN IF parsed.raised
          THEN /\ pc' = "raised"
               /\ log' = log \o dependency_yaml.log
               /\ UNCHANGED <<package_dependencies, manifest>>
          ELSE IF parsed.deps_file = None
          THEN /\ pc' = "failed"
               /\ log' = log \o dependency_yaml.log \o parsed.log
                             \o <<"Project dependencies could not be parsed">>
               /\ UNCHANGED <<package_dependencies, manifest>>
          ELSE /\ pc' = "scan"
               /\ log' = log \o dependency_yaml.log \o parsed.log
               /\ package_dependencies' = parsed.deps_file[1].package_dependencies
               /\ manifest' = parsed.deps_file[1].yml_dependencies
    /\ UNCHANGED <<dependency_path, lookup, packages_to_check, results, raised,
                   package_fusion_compatibility, buckets, first_results, iteration_order,
                   root_dir, call, text_file, python_file>>

\* the installed packages are scanned and merged into the dependencies; deps_file is returned
GenerateMerge ==
    /\ pc = "scan"
    /\ \E installed_packages \in InstalledScans :
          IF installed_packages.raised
          THEN /\ pc' = "raised"
               /\ UNCHANGED <<package_dependencies, lookup, log>>
          ELSE LET merged == merge_installed_versions(package_dependencies,
                                                      installed_packages.installed)
               IN /\ pc' = "loaded"
                  /\ package_dependencies' = merged.package_dependencies
                  /\ lookup' = Some(merged.lookup)
                  /\ log' = log \o merged.log
    /\ UNCHANGED <<manifest, dependency_path, packages_to_check, results, raised,
                   package_fusion_compatibility, buckets, first_results, iteration_order,
                   root_dir, call, text_file, python_file>>

NextLoad ==
    \/ GenerateFind
    \/ GenerateParse
    \/ GenerateMerge

SpecLoad == InitLoad /\ [][NextLoad]_vars

-----------------------------------------------------------------------------
(* DbtPackage.add_package_version and set_latest_package_version, called in *)
(* any order on one package                                                 *)

\* most calls made on the package
MaxCalls == 3

\* the versions registered: two version strings, without and with a require-dbt-version
\* that includes 2.0.0
PackageVersions ==
    {DbtPackageVersion(v, r) : v \in InstalledVersions, r \in {<<>>, Includes_2_0}}

\* the number of calls made so far
CallsMade == IF call = None THEN 0 ELSE call[1].index

\* console.log(f"Package version {package_version_str} already exists in package versions")
AlreadyExists(p, pv) ==
    IF HasVersion(p, pv.package_version_str)
    THEN <<"Package version " \o pv.package_version_str \o " already exists in package versions">>
    ELSE <<>>

InitVersions ==
    /\ package_dependencies = <<DbtPackage("pkg", "org/pkg", "package", None, NoKnowledge)>>
    /\ manifest = ManifestOf(package_dependencies)
    /\ call = None
    /\ log = <<>>
    /\ pc = "versions"
    /\ packages_to_check = {}
    /\ results = <<>>
    /\ raised = FALSE
    /\ package_fusion_compatibility = [state \in FusionCompatibilityState |-> <<>>]
    /\ buckets = NoBuckets
    /\ first_results = None
    /\ iteration_order = None
    /\ root_dir = None
    /\ dependency_path = None
    /\ lookup = None
    /\ text_file = None
    /\ python_file = None

\* package.add_package_version(new_package_version, installed, latest)
AddPackageVersion ==
    /\ pc = "versions"
    /\ CallsMade < MaxCalls
    /\ \E new_package_version \in PackageVersions, installed \in BOOLEAN, latest \in BOOLEAN :
          /\ package_dependencies' =
                <<add_package_version(package_dependencies[1], new_package_version, installed, latest)>>
          /\ log' = log \o AlreadyExists(package_dependencies[1], new_package_version)
          /\ call' = Some([op |-> "add_package_version",
                           index |-> CallsMade + 1,
                           new_package_version |-> new_package_version,
                           installed |-> installed,
                           latest |-> latest,
                           returned |-> ~HasVersion(package_dependencies[1],
                                                    new_package_version.package_version_str)])
    /\ UNCHANGED <<manifest, pc, packages_to_check, results, raised,
                   package_fusion_compatibility, buckets, first_results, iteration_order,
                   root_dir, dependency_path, lookup, text_file, python_file>>

\* package.set_latest_package_version(version_str, require_dbt_version_range)
SetLatestPackageVersion ==
    /\ pc = "versions"
    /\ CallsMade < MaxCalls
    /\ \E new_package_version \in PackageVersions :
          /\ package_dependencies' =
                <<add_package_version(package_dependencies[1], new_package_version, FALSE, TRUE)>>
          /\ log' = log \o AlreadyExists(package_dependencies[1], new_package_version)
          /\ call' = Some([op |-> "set_latest_package_version",
                           index |-> CallsMade + 1,
                           new_package_version |-> new_package_version,
                           installed |-> FALSE,
                           latest |-> TRUE,
                           returned |-> ~HasVersion(package_dependencies[1],
                                                    new_package_version.package_version_str)])
    /\ UNCHANGED <<manifest, pc, packages_to_check, results, raised,
                   package_fusion_compatibility, buckets, first_results, iteration_order,
                   root_dir, dependency_path, lookup, text_file, python_file>>

NextVersions ==
    \/ AddPackageVersion
    \/ SetLatestPackageVersion

SpecVersions == InitVersions /\ [][NextVersions]_vars

-----------------------------------------------------------------------------
(* The range queries of DbtPackage, called on one dependency as the loader *)
(* leaves it                                                               *)

\* the `version` of a manifest entry, the empty list included
QueriedSpecifiers == RawSpecifiers \cup {Some(<<>>)}

\* the dependencies the queries are called on
QueriedPackages ==
    {LoadedPackage(id, "package", raw, kb, None) :
        id \in {"org/pkg"}, raw \in QueriedSpecifiers, kb \in KnowledgeBaseEntries}

InitQueries ==
    /\ package_dependencies \in {<<p>> : p \in QueriedPackages}
    /\ manifest = ManifestOf(package_dependencies)
    /\ packages_to_check = {}
    /\ results = <<>>
    /\ raised = FALSE
    /\ package_fusion_compatibility = [state \in FusionCompatibilityState |-> <<>>]
    /\ buckets = NoBuckets
    /\ first_results = None
    /\ iteration_order = None
    /\ root_dir = None
    /\ dependency_path = None
    /\ lookup = None
    /\ log = <<>>
    /\ call = None
    /\ text_file = None
    /\ python_file = None
    /\ pc = "query"

\* package.find_fusion_compatible_versions_in_requested_range() and
\* package.find_fusion_compatible_versions_outside_requested_range(), as lines 220-221 of
\* check_for_package_upgrades call them
RangeQueries ==
    /\ pc = "query"
    /\ call' = Some([op |-> "range_queries",
                     within |-> find_fusion_compatible_versions_in_requested_range(
                                    package_dependencies[1]),
                     outside |-> find_fusion_compatible_versions_outside_requested_range(
                                     package_dependencies[1])])
    /\ pc' = "queried"
    /\ UNCHANGED <<package_dependencies, manifest, packages_to_check, results, raised,
                   package_fusion_compatibility, buckets, first_results, iteration_order,
                   root_dir, dependency_path, lookup, log, text_file, python_file>>

NextQueries == RangeQueries

SpecQueries == InitQueries /\ [][NextQueries]_vars

-----------------------------------------------------------------------------
(* DbtPackageTextFile: the manifest read as text, line by line, and the      *)
(* rewrite of version lines (dbt_package_text_file.py)                       *)

\* most lines of a manifest file
MaxLines == 3

\* most blocks in the key_blocks of an instance
MaxBlocks == 2

\* the lines a manifest file is made of
FileLines ==
    {"packages:\n", "- package: a/b\n", "  version: 1.0\n", "- package: c/d\n", "\n"}

\* the files on disk: every sequence of at most MaxLines lines
TextFiles == UNION {[1..n -> FileLines] : n \in 0..MaxLines}

\* Python's `sub in s` on strings
Contains(sub, s) ==
    \E i \in 1..(Len(s) - Len(sub) + 1) : SubSeq(s, i, i + Len(sub) - 1) = sub

\* the characters \w of the re module matches, among those of FileLines and of the versions
WordChars ==
    {"a", "b", "c", "d", "e", "g", "i", "k", "n", "o", "p", "r", "s", "v",
     "0", "1", "2", "_"}

\* \b of the re module at the gap before character i of s (1-based; Len(s) + 1 is the end)
WordBoundary(s, i) ==
    (i > 1 /\ SubSeq(s, i - 1, i - 1) \in WordChars)
        # (i <= Len(s) /\ SubSeq(s, i, i) \in WordChars)

\* DbtPackageTextFileLine(line): __post_init__ sets the three flags
DbtPackageTextFileLine(line) ==
    [line |-> line,
     line_with_key |-> Contains("-", line),
     line_with_package |-> Contains("package", line),
     line_with_version |-> Contains("version", line),
     modified |-> FALSE]

\* matched.end() of every match of \bversion\b in the line
VersionMatchEnds(line) ==
    {e \in 7..Len(line) :
        /\ SubSeq(line, e - 6, e) = "version"
        /\ WordBoundary(line, e - 6)
        /\ WordBoundary(line, e + 1)}

\* [self.line[:end_pos], self.line[end_pos:]] for the first of the matches, or the empty
\* list when there is none
SplitAfterFirst(line, ends) ==
    IF ends = {} THEN <<>>
    ELSE <<SubSeq(line, 1, CHOOSE e \in ends : \A f \in ends : e <= f),
           SubSeq(line, (CHOOSE e \in ends : \A f \in ends : e <= f) + 1, Len(line))>>

\* DbtPackageTextFileLine.extract_version_from_line
extract_version_from_line(l) == SplitAfterFirst(l.line, VersionMatchEnds(l.line))

\* DbtPackageTextFileLine.replace_version_string_in_line, from its local
\* extracted_version on: the line after the call and the boolean returned
replace_version_string_in_line(l, extracted_version, new_string) ==
    IF Len(extracted_version) # 2 THEN [line |-> l, result |-> FALSE]
    ELSE [line |-> [l EXCEPT !.line = extracted_version[1] \o ": " \o new_string \o "\n",
                             !.modified = TRUE],
          result |-> TRUE]

\* DbtPackageTextFileBlock(start_line, end_line, package_line, version_line)
DbtPackageTextFileBlock(start_line, end_line, package_line, version_line) ==
    [start_line |-> start_line, end_line |-> end_line,
     package_line |-> package_line, version_line |-> version_line]

\* the fields of a DbtPackageTextFile instance (key_blocks_by_start and key_blocks_by_end
\* are written nowhere and stay empty)
TextFileObject(lines, lines_with_package, lines_with_version, lines_with_new_key, key_blocks) ==
    [lines |-> lines,
     lines_with_package |-> lines_with_package,
     lines_with_version |-> lines_with_version,
     lines_with_new_key |-> lines_with_new_key,
     key_blocks |-> key_blocks,
     lines_modified |-> {}]

\* the instance as the dataclass creates it, before __post_init__
NewTextFile == TextFileObject(<<>>, <<>>, <<>>, <<>>, <<>>)

\* The local state of parse_file_as_text_by_line at its first statement.  The local
\* lines_parsed is assigned nowhere before the loop: it is unbound (None) until an
\* assignment binds it, and a read of it while unbound raises UnboundLocalError.
ParseStart ==
    [this |-> NewTextFile,
     current_line |-> -1,
     key_block |-> DbtPackageTextFileBlock(0, -1, -1, -1),
     lines_parsed |-> None,
     error |-> None]

\* an exception raised inside the try: the statements after it are skipped
ParseError(st, exception) == [st EXCEPT !.error = Some(exception)]

\* `if new_line.line_with_key:` and its body (lines 79-83)
ParseNewKey(st, new_line) ==
    IF ~new_line.line_with_key THEN st
    ELSE IF st.lines_parsed = None THEN ParseError(st, "UnboundLocalError")
    ELSE [st EXCEPT
             !.this.lines_with_new_key = Append(@, st.lines_parsed[1]),
             !.this.key_blocks =
                 Append(@, [st.key_block EXCEPT !.end_line = st.current_line - 1]),
             !.key_block = DbtPackageTextFileBlock(st.current_line, -1, -1, -1)]

\* `if new_line.line_with_package:` and its body (lines 84-86)
ParsePackage(st, new_line) ==
    IF st.error # None \/ ~new_line.line_with_package THEN st
    ELSE IF st.lines_parsed = None THEN ParseError(st, "UnboundLocalError")
    ELSE [st EXCEPT
             !.this.lines_with_package = Append(@, st.lines_parsed[1]),
             !.key_block.package_line = st.current_line]

\* `if new_line.line_with_version:` and its body (lines 87-89)
ParseVersion(st, new_line) ==
    IF st.error # None \/ ~new_line.line_with_version THEN st
    ELSE IF st.lines_parsed = None THEN ParseError(st, "UnboundLocalError")
    ELSE [st EXCEPT
             !.this.lines_with_version = Append(@, st.lines_parsed[1]),
             !.key_block.version_line = st.current_line]

\* `self.lines.append(DbtPackageTextFileLine(line))` and `lines_parsed += 1` (lines 90-91)
ParseAppend(st, new_line) ==
    IF st.error # None THEN st
    ELSE IF st.lines_parsed = None
         THEN ParseError([st EXCEPT !.this.lines = Append(@, new_line)], "UnboundLocalError")
    ELSE [st EXCEPT !.this.lines = Append(@, new_line),
                    !.lines_parsed = Some(st.lines_parsed[1] + 1)]

\* the statements of one iteration after `new_line = DbtPackageTextFileLine(line)`
ParseStatements(st, new_line) ==
    ParseAppend(ParseVersion(ParsePackage(ParseNewKey(st, new_line), new_line), new_line),
                new_line)

\* one iteration of `for line in file` (lines 76-91)
ParseLine(st, line) ==
    ParseStatements([st EXCEPT !.current_line = @ + 1], DbtPackageTextFileLine(line))

\* the loop of lines 75-91: it ends at the end of the file or at the first exception,
\* which `except Exception` (line 94) catches and prints
RECURSIVE ParseLoop(_, _, _)
ParseLoop(st, file, i) ==
    IF i > Len(file) \/ st.error # None THEN st
    ELSE ParseLoop(ParseLine(st, file[i]), file, i + 1)

\* The end of parse_file_as_text_by_line (lines 92-96): what the except clauses print,
\* then `return lines_parsed`, which is outside the try: with lines_parsed unbound it
\* raises UnboundLocalError to the caller.
ParseReturn(st) ==
    [this |-> st.this,
     printed |-> IF st.error = None THEN <<>>
                 ELSE IF st.error = Some("FileNotFoundError")
                      THEN <<"Error: The file was not found.">>
                      ELSE <<"An error occurred: " \o st.error[1]>>,
     raised |-> st.lines_parsed = None,
     returned |-> st.lines_parsed]

\* DbtPackageTextFile.parse_file_as_text_by_line on a file that exists or not: the
\* instance it leaves, what it printed, and how it ended
parse_file_as_text_by_line(exists, file) ==
    ParseReturn(IF exists THEN ParseLoop(ParseStart, file, 1)
                ELSE ParseError(ParseStart, "FileNotFoundError"))

-----------------------------------------------------------------------------
(* DbtPackageTextFile.update_config_file and what it calls *)

\* a call that ended with an exception, and one that returned
Raises(this, exception) == [this |-> this, raised |-> Some(exception), value |-> None]
Returns(this, value) == [this |-> this, raised |-> None, value |-> Some(value)]

\* the candidates whose package line contains the name (lines 115-117); package_name is
\* tested against the text of the line with Python's `in`
MatchingCandidates(this, package_name, candidates) ==
    {c \in candidates :
        Contains(package_name, this.lines[this.key_blocks[c + 1].package_line + 1].line)}

\* `blocks_for_packages[i] = candidate; break` for the first matching candidate (lines
\* 115-119).  `for candidate in candidates` visits a set of small integers, which CPython
\* iterates in ascending order.
AssignFirst(blocks_for_packages, i, matching) ==
    IF matching = {} THEN blocks_for_packages
    ELSE [blocks_for_packages EXCEPT ![i] = CHOOSE c \in matching : \A d \in matching : c <= d]

\* `if package_block > -1: candidates.remove(package_block)` (lines 120-122)
RemoveFound(candidates, package_block) ==
    IF package_block > -1 THEN candidates \ {package_block} ELSE candidates

\* The loop of find_key_blocks_for_packages over package_names (lines 114-122), from
\* its i-th name (1-based here).  blocks_for_packages has the one element the method
\* gave it: the subscript i is out of range from the second name on, at line 118 or at
\* line 120.
RECURSIVE FindBlocksLoop(_, _, _, _, _)
FindBlocksAssigned(this, package_names, i, candidates, assigned) ==
    FindBlocksLoop(this, package_names, i + 1, RemoveFound(candidates, assigned[i]), assigned)

FindBlocksLoop(this, package_names, i, candidates, blocks_for_packages) ==
    IF i > Len(package_names) THEN Returns(this, blocks_for_packages)
    ELSE IF i > Len(blocks_for_packages) THEN Raises(this, "IndexError")
    ELSE FindBlocksAssigned(this, package_names, i, candidates,
                            AssignFirst(blocks_for_packages, i,
                                        MatchingCandidates(this, package_names[i], candidates)))

\* DbtPackageTextFile.find_key_blocks_for_packages: `[-1 * len(package_names)]` is a
\* list of one element, the number -len(package_names)
find_key_blocks_for_packages(this, package_names) ==
    FindBlocksLoop(this, package_names, 1,
                   {i \in 0..(Len(this.key_blocks) - 1) : this.key_blocks[i + 1].package_line > -1},
                   <<-1 * Len(package_names)>>)

\* the end of change_package_version_in_block (lines 133-137), given what
\* replace_version_string_in_line did to the line
VersionLineChanged(this, block_version_line, replaced) ==
    IF replaced.result
    THEN Returns([this EXCEPT !.lines[block_version_line + 1] = replaced.line,
                              !.lines_modified = @ \cup {block_version_line}],
                 block_version_line)
    ELSE Returns(this, -1)

\* change_package_version_in_block from `if block_version_line == -1` on (lines 130-132)
ChangeVersionLine(this, block_version_line, new_version_string) ==
    IF block_version_line = -1 THEN Returns(this, -1)
    ELSE IF block_version_line >= Len(this.lines) THEN Raises(this, "IndexError")
    ELSE VersionLineChanged(
             this, block_version_line,
             replace_version_string_in_line(
                 this.lines[block_version_line + 1],
                 extract_version_from_line(this.lines[block_version_line + 1]),
                 new_version_string))

\* DbtPackageTextFile.change_package_version_in_block: the instance after the call and
\* the line number returned (-1: nothing changed)
change_package_version_in_block(this, block_number, new_version_string) ==
    IF block_number < 0 \/ block_number > Len(this.key_blocks) THEN Returns(this, -1)
    ELSE IF block_number = Len(this.key_blocks) THEN Raises(this, "IndexError")
    ELSE ChangeVersionLine(this, this.key_blocks[block_number + 1].version_line,
                           new_version_string)

\* `if package_version[0] == "=": package_version = package_version[1:]` (lines 167-168)
StripEquals(package_version) ==
    IF SubSeq(package_version, 1, 1) = "="
    THEN SubSeq(package_version, 2, Len(package_version))
    ELSE package_version

\* The loop of update_config_file over the blocks found (lines 160-173), from the i-th
\* (1-based here): the instance and the names in updated_packages after it.
\* packages_with_versions is the dict as the list of its items, in insertion order.
RECURSIVE UpdateLoop(_, _, _, _, _)
UpdateChanged(changed, packages_with_versions, key_blocks, i, updated_packages) ==
    IF changed.raised # None THEN changed
    ELSE UpdateLoop(changed.this, packages_with_versions, key_blocks, i + 1,
                    IF changed.value[1] > -1 /\ changed.value[1] < Len(changed.this.lines)
                    THEN updated_packages \cup {packages_with_versions[i][1]}
                    ELSE updated_packages)

UpdateLoop(this, packages_with_versions, key_blocks, i, updated_packages) ==
    IF i > Len(key_blocks) THEN Returns(this, updated_packages)
    ELSE IF key_blocks[i] = -1
         THEN UpdateLoop(this, packages_with_versions, key_blocks, i + 1, updated_packages)
    ELSE UpdateChanged(change_package_version_in_block(
                           this, key_blocks[i], StripEquals(packages_with_versions[i][2])),
                       packages_with_versions, key_blocks, i, updated_packages)

\* DbtPackageTextFile.write_output_to_file: the lines written to file_path
write_output_to_file(this) == [i \in 1..Len(this.lines) |-> this.lines[i].line]

\* how update_config_file ended: the instance after the call, whether the dry-run heading
\* and the lines were printed, whether write_output_to_file was called, and the exception
\* raised or the set returned
UpdateOutcome(this, printed, written, exception, value) ==
    [this |-> this, printed |-> printed, written |-> written,
     raised |-> exception, value |-> value]

\* update_config_file after its loop (lines 174-191)
UpdateReport(updated, dry_run, print_to_console) ==
    IF updated.raised # None THEN UpdateOutcome(updated.this, FALSE, FALSE, updated.raised, None)
    ELSE IF updated.value[1] = {} THEN UpdateOutcome(updated.this, FALSE, FALSE, None, Some({}))
    ELSE IF dry_run /\ print_to_console
         THEN UpdateOutcome(updated.this, TRUE, FALSE, None, updated.value)
    ELSE UpdateOutcome(updated.this, FALSE, TRUE, None, Some({}))

\* update_config_file from the blocks found on (lines 160-191)
UpdateFound(found, packages_with_versions, dry_run, print_to_console) ==
    IF found.raised # None THEN UpdateOutcome(found.this, FALSE, FALSE, found.raised, None)
    ELSE UpdateReport(UpdateLoop(found.this, packages_with_versions, found.value[1], 1, {}),
                      dry_run, print_to_console)

\* DbtPackageTextFile.update_config_file
update_config_file(this, packages_with_versions, dry_run, print_to_console) ==
    IF Len(packages_with_versions) = 0 THEN UpdateOutcome(this, FALSE, FALSE, None, Some({}))
    ELSE UpdateFound(
             find_key_blocks_for_packages(
                 this,
                 [i \in 1..Len(packages_with_versions) |-> packages_with_versions[i][1]]),
             packages_with_versions, dry_run, print_to_console)

-----------------------------------------------------------------------------
(* The constructor and update_config_file as the steps of one specification *)

\* The instances update_config_file is called on.  DbtPackageTextFile(file_path) never
\* returns one (see ConstructTextFile), so that an instance exists only with its fields
\* assigned directly; these are the values of the declared field types over the lines of
\* the file: any key_blocks of at most MaxBlocks blocks whose package_line and
\* version_line are -1 or a line number of the file.  start_line, end_line and the three
\* lines_with_ lists, which update_config_file and what it calls never read, keep their
\* initial values.
KeyBlocks(n) ==
    UNION {[1..k -> {DbtPackageTextFileBlock(0, -1, p, v) :
                        p \in -1..(n - 1), v \in -1..(n - 1)}] : k \in 0..MaxBlocks}

TextFileInstances(file) ==
    {TextFileObject([i \in 1..Len(file) |-> DbtPackageTextFileLine(file[i])],
                    <<>>, <<>>, <<>>, key_blocks) : key_blocks \in KeyBlocks(Len(file))}

\* the package names asked for and the version strings given for them
RequestedNames == {"a/b", "c/d"}
RequestedVersions == {"2.0", "=2.0"}

\* the dicts update_config_file is called with, as lists of (name, version) items in
\* insertion order: empty, one item, or the two names
RequestedPackages ==
    {<<>>}
    \cup {<< <<n, v>> >> : n \in RequestedNames, v \in RequestedVersions}
    \cup {<< <<x[1], "2.0">>, <<x[2], "2.0">> >> :
             x \in {y \in RequestedNames \X RequestedNames : y[1] # y[2]}}

InitText ==
    /\ \/ /\ pc = "text"
          /\ \E exists \in BOOLEAN, file \in TextFiles :
                /\ exists \/ file = <<>>
                /\ text_file = [exists |-> exists, file |-> file, this |-> None]
       \/ /\ pc = "instance"
          /\ \E file \in TextFiles :
                \E this \in TextFileInstances(file) :
                    text_file = [exists |-> TRUE, file |-> file, this |-> Some(this)]
    /\ call = None
    /\ log = <<>>
    /\ package_dependencies = <<>>
    /\ manifest = <<>>
    /\ packages_to_check = {}
    /\ results = <<>>
    /\ raised = FALSE
    /\ package_fusion_compatibility = [state \in FusionCompatibilityState |-> <<>>]
    /\ buckets = NoBuckets
    /\ first_results = None
    /\ iteration_order = None
    /\ root_dir = None
    /\ dependency_path = None
    /\ lookup = None
    /\ python_file = None

\* DbtPackageTextFile(file_path): __post_init__ calls parse_file_as_text_by_line, whose
\* exception leaves __init__, so that the caller gets no instance.  text_file.this keeps
\* what the call had assigned to the instance it was building.
ConstructTextFile ==
    /\ pc = "text"
    /\ \E parsed \in {parse_file_as_text_by_line(text_file.exists, text_file.file)} :
          /\ text_file' = [text_file EXCEPT !.this = Some(parsed.this)]
          /\ log' = log \o parsed.printed
          /\ call' = Some([op |-> "__init__",
                           raised |-> IF parsed.raised THEN Some("UnboundLocalError") ELSE None,
                           returned |-> parsed.returned])
          /\ pc' = IF parsed.raised THEN "raised" ELSE "instance"
          /\ raised' = parsed.raised
    /\ UNCHANGED <<package_dependencies, manifest, packages_to_check, results,
                   package_fusion_compatibility, buckets, first_results, iteration_order,
                   root_dir, dependency_path, lookup, python_file>>

\* text_file.update_config_file(packages_with_versions, dry_run, print_to_console) on an
\* instance; write_output_to_file replaces the content of the file by the lines
UpdateConfigFile ==
    /\ pc = "instance"
    /\ \E packages_with_versions \in RequestedPackages,
          dry_run \in BOOLEAN, print_to_console \in BOOLEAN :
          \E outcome \in {update_config_file(text_file.this[1], packages_with_versions,
                                             dry_run, print_to_console)} :
             /\ text_file' =
                    [text_file EXCEPT
                        !.this = Some(outcome.this),
                        !.file = IF outcome.written THEN write_output_to_file(outcome.this)
                                 ELSE @]
             /\ log' = log \o (IF outcome.printed THEN <<"DRY RUN - NOT APPLIED: ">> ELSE <<>>)
             /\ call' = Some([op |-> "update_config_file",
                              packages_with_versions |-> packages_with_versions,
                              dry_run |-> dry_run,
                              print_to_console |-> print_to_console,
                              written |-> outcome.written,
                              raised |-> outcome.raised,
                              returned |-> outcome.value])
             /\ pc' = IF outcome.raised # None THEN "raised" ELSE "updated"
             /\ raised' = (outcome.raised # None)
    /\ UNCHANGED <<package_dependencies, manifest, packages_to_check, results,
                   package_fusion_compatibility, buckets, first_results, iteration_order,
                   root_dir, dependency_path, lookup, python_file>>

NextText ==
    \/ ConstructTextFile
    \/ UpdateConfigFile

SpecText == InitText /\ [][NextText]_vars

-----------------------------------------------------------------------------
(* The refactors of Python model files (refactors/changesets/dbt_python.py) *)

\* most statements of a Python model file, and most keyword arguments of one
\* dbt.config(...) call
MaxStatements == 2
MaxKwargs == 2

\* the node types of a schema specification and the config keys written in the files:
\* "random_config" is allowed for no node type
NodeTypes == {"models", "seeds"}
ConfigKeys == {"materialized", "quote_columns", "meta", "random_config"}

\* schema_specs.yaml_specs_per_node_type[node_type].allowed_config_fields of the schema
\* specifications: every node type allows "materialized" and any of "quote_columns", "meta"
SchemaSpecs ==
    [NodeTypes -> {{"materialized"} \cup s : s \in SUBSET {"quote_columns", "meta"}}]

\* the source text of the values of keyword arguments: a string literal, a dict literal
\* and a name
StringValue == "\"v\""
DictValue == "{\"o\": 1}"
NameValue == "m"

\* One statement of a file: a dbt.config(...) call with its keyword arguments in source
\* order, a dbt.config.get("key"[, default]) call followed by the chained .get(...) calls
\* written after it, or any other text.
Statement(kind, kwargs, key, default, chain) ==
    [kind |-> kind, kwargs |-> kwargs, key |-> key, default |-> default, chain |-> chain]

ConfigCall(kwargs) == Statement("config", kwargs, "", None, <<>>)
ConfigGet(key, default, chain) == Statement("get", <<>>, key, default, chain)
OtherText == Statement("other", <<>>, "", None, <<>>)

\* the keyword arguments _parse_python_kwargs returns for calls of at most max_kwargs
\* arguments: the distinct keys in source order, each with the source of its value
KwargLists(max_kwargs) ==
    {kw \in UNION {[1..n -> {<<k, v>> \in ConfigKeys \X {StringValue, DictValue, NameValue} :
                                (k = "meta") = (v # StringValue)}] : n \in 0..max_kwargs} :
        \A i, j \in 1..Len(kw) : kw[i][1] = kw[j][1] => i = j}

\* the statements the files are made of
Statements(max_kwargs) ==
    {ConfigCall(kw) : kw \in KwargLists(max_kwargs)}
    \cup {ConfigGet(k, d, <<>>) : k \in ConfigKeys, d \in {None, Some("\"d\"")}}
    \cup {OtherText}

\* the files the refactors are applied to: at most max_statements statements
PythonFiles(max_statements, max_kwargs) ==
    UNION {[1..n -> Statements(max_kwargs)] : n \in 0..max_statements}

\* reversed(matches), reversed(replacements)
LastToFirst(s) == [i \in 1..Len(s) |-> s[Len(s) + 1 - i]]

\* ", ".join(items)
RECURSIVE Join(_)
Join(items) ==
    IF items = <<>> THEN ""
    ELSE IF Len(items) = 1 THEN items[1]
    ELSE items[1] \o ", " \o Join(Tail(items))

\* SQLRuleRefactorResult(rule_name, refactored, refactored_content, original_content,
\* deprecation_refactors), the deprecation refactors by their logs
SQLRuleRefactorResult(rule_name, refactored, refactored_content, original_content, logs) ==
    [rule_name |-> rule_name,
     refactored |-> refactored,
     refactored_content |-> refactored_content,
     original_content |-> original_content,
     deprecation_refactors |-> logs]

\* the keyword arguments of one call sorted as lines 185-191 sort them
ExistingMeta(kwargs) == SelectSeq(kwargs, LAMBDA kv : kv[1] = "meta")
NativeConfigs(kwargs, allowed_config_fields) ==
    SelectSeq(kwargs, LAMBDA kv : kv[1] # "meta" /\ kv[1] \in allowed_config_fields)
CustomConfigs(kwargs, allowed_config_fields) ==
    SelectSeq(kwargs, LAMBDA kv : kv[1] # "meta" /\ kv[1] \notin allowed_config_fields)

\* The items taken from an existing meta (lines 200-211): ast.literal_eval gives a dict
\* for the dict literal, whose items are written as "k": repr(v); it gives a str for the
\* string literal, which is no dict, and raises ValueError for the name, which is passed
\* over.
ExistingMetaItems(existing_meta) ==
    IF existing_meta # <<>> /\ existing_meta[1][2] = DictValue THEN <<"\"o\": 1">> ELSE <<>>

\* f'"{key}": {value}' for every custom config (lines 214-215)
CustomMetaItems(custom_configs) ==
    [i \in 1..Len(custom_configs) |->
        "\"" \o custom_configs[i][1] \o "\": " \o custom_configs[i][2]]

\* the keyword arguments of new_call (lines 217-225): the native ones, then meta
NewKwargs(native_configs, meta_items) ==
    Append(native_configs, <<"meta", "{" \o Join(meta_items) \o "}">>)

\* one pass of the loop of refactor_custom_configs_to_meta_python over a match (lines
\* 164-231): the statement after it
RefactorConfigCall(statement, allowed_config_fields) ==
    IF statement.kind # "config" \/ statement.kwargs = <<>> THEN statement
    ELSE IF CustomConfigs(statement.kwargs, allowed_config_fields) = <<>> THEN statement
    ELSE ConfigCall(NewKwargs(NativeConfigs(statement.kwargs, allowed_config_fields),
                              ExistingMetaItems(ExistingMeta(statement.kwargs))
                                  \o CustomMetaItems(CustomConfigs(statement.kwargs,
                                                                   allowed_config_fields))))

\* f"Moved custom configs {list(custom_configs.keys())} to 'meta'" (line 235)
MovedLog(custom_configs) ==
    "Moved custom configs ["
        \o Join([i \in 1..Len(custom_configs) |-> "'" \o custom_configs[i][1] \o "'"])
        \o "] to 'meta'"

\* the logs of the deprecation refactors, collected as the loop visits the matches: from
\* the last call of the file to the first (`for match in reversed(matches)`)
MovedLogs(python_content, allowed_config_fields) ==
    LastToFirst(
        SelectSeq([i \in 1..Len(python_content) |->
                      IF RefactorConfigCall(python_content[i], allowed_config_fields)
                             = python_content[i]
                      THEN ""
                      ELSE MovedLog(CustomConfigs(python_content[i].kwargs,
                                                  allowed_config_fields))],
                  LAMBDA l : l # ""))

\* refactor_custom_configs_to_meta_python from allowed_config_fields on (lines 158-246)
RefactorWithAllowed(python_content, allowed_config_fields) ==
    SQLRuleRefactorResult(
        "move_custom_configs_to_meta_python",
        MovedLogs(python_content, allowed_config_fields) # <<>>,
        [i \in 1..Len(python_content) |->
            RefactorConfigCall(python_content[i], allowed_config_fields)],
        python_content,
        MovedLogs(python_content, allowed_config_fields))

\* refactor_custom_configs_to_meta_python: the allowed fields are those of node_type
refactor_custom_configs_to_meta_python(python_content, schema_specs, node_type) ==
    RefactorWithAllowed(python_content, schema_specs[node_type])

\* the replacement of one match of DBT_CONFIG_GET_PATTERN (lines 293-310): the statement
\* after it.  The text written is dbt.config.get("meta").get("key"[, default]): a get of
\* "meta" followed by one more chained get.
RewriteConfigGet(statement, allowed_config_fields) ==
    IF statement.kind # "get" \/ statement.key \in allowed_config_fields THEN statement
    ELSE ConfigGet("meta", None, <<<<statement.key, statement.default>>>> \o statement.chain)

\* the logs of the replacements, collected from the last replacement to the first
\* (`reversed(replacements)`, lines 323-335)
UpdatedLogs(python_content, allowed_config_fields) ==
    LastToFirst(
        SelectSeq([i \in 1..Len(python_content) |->
                      IF RewriteConfigGet(python_content[i], allowed_config_fields)
                             = python_content[i]
                      THEN ""
                      ELSE "Updated config.get('" \o python_content[i].key
                               \o "') to config.get('meta').get('"
                               \o python_content[i].key \o "')"],
                  LAMBDA l : l # ""))

\* move_custom_config_access_to_meta_python from the matches on (lines 280-343)
MoveWithAllowed(python_content, allowed_config_fields) ==
    SQLRuleRefactorResult(
        "move_custom_config_access_to_meta_python",
        UpdatedLogs(python_content, allowed_config_fields) # <<>>,
        [i \in 1..Len(python_content) |->
            RewriteConfigGet(python_content[i], allowed_config_fields)],
        python_content,
        UpdatedLogs(python_content, allowed_config_fields))

\* move_custom_config_access_to_meta_python: the allowed fields are those of every node
\* type of the schema specification together (lines 275-277); node_type is not read
move_custom_config_access_to_meta_python(python_content, schema_specs, node_type) ==
    MoveWithAllowed(python_content, UNION {schema_specs[t] : t \in DOMAIN schema_specs})

-----------------------------------------------------------------------------

(* The two refactors applied to one Python model file, each at most once, in either *)
(* order                                                                           *)

\* the rules already applied to the file
RulesApplied == {python_file.rules_applied[i] : i \in 1..Len(python_file.rules_applied)}

InitPython ==
    /\ pc = "python"
    /\ \E python_content \in PythonFiles(MaxStatements, MaxKwargs), schema_specs \in SchemaSpecs, node_type \in NodeTypes :
          python_file = [content |-> python_content,
                         schema_specs |-> schema_specs,
                         node_type |-> node_type,
                         rules_applied |-> <<>>]
    /\ call = None
    /\ log = <<>>
    /\ package_dependencies = <<>>
    /\ manifest = <<>>
    /\ packages_to_check = {}
    /\ results = <<>>
    /\ raised = FALSE
    /\ package_fusion_compatibility = [state \in FusionCompatibilityState |-> <<>>]
    /\ buckets = NoBuckets
    /\ first_results = None
    /\ iteration_order = None
    /\ root_dir = None
    /\ dependency_path = None
    /\ lookup = None
    /\ text_file = None

\* the content of the file replaced by the refactored content of a result
ApplyResult(result) ==
    /\ python_file' = [python_file EXCEPT
                          !.content = result.refactored_content,
                          !.rules_applied = Append(@, result.rule_name)]
    /\ call' = Some(result)
    /\ log' = log \o result.deprecation_refactors
    /\ UNCHANGED <<pc, package_dependencies, manifest, packages_to_check, results, raised,
                   package_fusion_compatibility, buckets, first_results, iteration_order,
                   root_dir, dependency_path, lookup, text_file>>

\* refactor_custom_configs_to_meta_python(python_content, schema_specs, node_type)
RefactorCustomConfigsToMetaPython ==
    /\ pc = "python"
    /\ "move_custom_configs_to_meta_python" \notin RulesApplied
    /\ \E result \in {refactor_custom_configs_to_meta_python(
                          python_file.content, python_file.schema_specs, python_file.node_type)} :
          ApplyResult(result)

\* move_custom_config_access_to_meta_python(python_content, schema_specs, node_type)
MoveCustomConfigAccessToMetaPython ==
    /\ pc = "python"
    /\ "move_custom_config_access_to_meta_python" \notin RulesApplied
    /\ \E result \in {move_custom_config_access_to_meta_python(
                          python_file.content, python_file.schema_specs, python_file.node_type)} :
          ApplyResult(result)

NextPython ==
    \/ RefactorCustomConfigsToMetaPython
    \/ MoveCustomConfigAccessToMetaPython

SpecPython == InitPython /\ [][NextPython]_vars

-----------------------------------------------------------------------------

(* Reference notions used by the properties, stated on the data alone *)

Returned == pc \in {"done", "applied"}
Classified == pc \in {"no_range", "individual", "fallback", "done", "applied"}

Declared == {package_dependencies[i] : i \in 1..Len(package_dependencies)}
ResultSet == {results[i] : i \in 1..Len(results)}
ResultsOf(p) == {r \in ResultSet : r.id = p.package_id}

PrivateSource(p) == p.local \/ p.git \/ p.tarball
Overridden(p) == p.package_id \in EXPLICIT_ALLOW_ALL_VERSIONS \cup EXPLICIT_DISALLOW_ALL_VERSIONS

ListOf(optional_list) == IF optional_list = None THEN <<>> ELSE optional_list[1]
Elements(list) == {list[i] : i \in 1..Len(list)}
CompatibleVersions(p) == Elements(ListOf(p.fusion_compatible_versions))
IncompatibleVersions(p) == Elements(ListOf(p.fusion_incompatible_versions))
UnknownVersions(p) == Elements(ListOf(p.unknown_compatibility_versions))

\* v satisfies every specifier the manifest entry declares
Meets(v, s) ==
    CASE s.matcher = ">=" -> ~VersionLess(v, s.version)
      [] s.matcher = ">"  -> VersionLess(s.version, v)
      [] s.matcher = "<"  -> VersionLess(v, s.version)
      [] s.matcher = "<=" -> ~VersionLess(s.version, v)
      [] OTHER            -> v = s.version
InDeclaredRange(v, p) ==
    \A s \in Elements(ListOf(p.project_config_raw_version_specifier)) : Meets(v, s)

CompatibleInRange(p) == {v \in CompatibleVersions(p) : InDeclaredRange(v, p)}
CompatibleOutOfRange(p) == {v \in CompatibleVersions(p) : ~InDeclaredRange(v, p)}
Highest(S) == CHOOSE v \in S : \A w \in S : w = v \/ VersionLess(w, v)

\* the state of the installed version, as the classifier reads it
InstalledState(p) == is_installed_version_fusion_compatible(p)

\* the state check_for_package_upgrades computed for the package
StateOf(p) ==
    CHOOSE state \in FusionCompatibilityState :
        p.package_id \in Elements(package_fusion_compatibility[state])

\* the package reaches the individual-version step
Remaining(p) ==
    /\ ~PrivateSource(p)
    /\ InstalledState(p) # "DBT_VERSION_RANGE_INCLUDES_2_0"
    /\ get_fusion_compatibility_state(p) \notin {"DBT_VERSION_RANGE_EXCLUDES_2_0", "NO_DBT_VERSION_RANGE"}

-----------------------------------------------------------------------------
(* Properties *)

\* C1: check_for_package_upgrades never raises and returns exactly one result per declared
\* dependency: as many results as dependencies, pairwise distinct ids, the ids being the
\* declared package ids.
C1_OneResultPerDependency ==
    /\ pc # "raised"
    /\ Returned =>
          /\ Len(results) = Len(package_dependencies)
          /\ \A i, j \in 1..Len(results) : results[i].id = results[j].id => i = j
          /\ {r.id : r \in ResultSet} = {p.package_id : p \in Declared}

\* a returned run over MaxPackages dependencies, one of them private with an installed
\* version that declares itself compatible (listed by two steps)
C1_Witness ==
    /\ pc = "done"
    /\ Len(results) = MaxPackages
    /\ \E p \in Declared : PrivateSource(p) /\ InstalledState(p) = "DBT_VERSION_RANGE_INCLUDES_2_0"

C3_DisallowWins ==
    \A p \in Declared :
        (~PrivateSource(p)
         /\ p.package_id \in EXPLICIT_ALLOW_ALL_VERSIONS \cap EXPLICIT_DISALLOW_ALL_VERSIONS)
        => /\ is_installed_version_fusion_compatible(p) = "EXPLICIT_DISALLOW"
           /\ get_fusion_compatibility_state(p) = "EXPLICIT_DISALLOW"
           /\ Classified => StateOf(p) = "EXPLICIT_DISALLOW"

\* a public package in both sets, installed with a self-declared compatible version and
\* with compatible versions known, after its state was computed
C3_Witness ==
    /\ Classified
    /\ \E p \in Declared :
          /\ ~PrivateSource(p)
          /\ p.package_id \in EXPLICIT_ALLOW_ALL_VERSIONS \cap EXPLICIT_DISALLOW_ALL_VERSIONS
          /\ p.installed_version_fusion_compatibility = "DBT_VERSION_RANGE_INCLUDES_2_0"
          /\ CompatibleVersions(p) # {}

\* the reference decision table of C4
DecisionTable(p) ==
    IF InstalledState(p) = "DBT_VERSION_RANGE_INCLUDES_2_0" THEN "DBT_VERSION_RANGE_INCLUDES_2_0"
    ELSE IF CompatibleVersions(p) # {} THEN "DBT_VERSION_RANGE_INCLUDES_2_0"
    ELSE IF IncompatibleVersions(p) # {} /\ UnknownVersions(p) = {} THEN "DBT_VERSION_RANGE_EXCLUDES_2_0"
    ELSE "NO_DBT_VERSION_RANGE"

\* C4: for a public package in neither override set the computed state is the one of the
\* decision table, and it is never UNKNOWN.
C4_DecisionTable ==
    Classified =>
        \A p \in Declared :
            (~PrivateSource(p) /\ ~Overridden(p))
            => StateOf(p) = DecisionTable(p) /\ StateOf(p) # "UNKNOWN"

\* incompatible versions together with an unknown-compatibility version: NO_DBT_VERSION_RANGE
C4_Witness ==
    /\ Classified
    /\ \E p \in Declared :
          /\ ~PrivateSource(p) /\ ~Overridden(p)
          /\ InstalledState(p) # "DBT_VERSION_RANGE_INCLUDES_2_0"
          /\ CompatibleVersions(p) = {}
          /\ IncompatibleVersions(p) # {} /\ UnknownVersions(p) # {}
          /\ StateOf(p) = "NO_DBT_VERSION_RANGE"

\* C5: a dependency gets PRIVATE_PACKAGE_MISSING_REQUIRE_DBT_VERSION exactly when it is
\* declared via local, git or tarball; its result then has public_package = false and no
\* recommended version, whatever the knowledge base, the installed facts and the overrides say.
C5_PrivateReason ==
    Returned =>
        \A p \in Declared : \A r \in ResultsOf(p) :
            /\ r.version_reason = "PRIVATE_PACKAGE_MISSING_REQUIRE_DBT_VERSION" <=> PrivateSource(p)
            /\ PrivateSource(p) =>
                  /\ r.public_package = FALSE
                  /\ r.compatible_version = None
                  /\ r.upgraded_version = None

\* a private package with an overridden id, known compatible versions and a compatible
\* installed version, reported as private
C5_Witness ==
    /\ Returned
    /\ \E p \in Declared :
          /\ PrivateSource(p) /\ Overridden(p)
          /\ CompatibleVersions(p) # {}
          /\ p.installed_version_fusion_compatibility = "DBT_VERSION_RANGE_INCLUDES_2_0"
          /\ \E r \in ResultsOf(p) : r.version_reason = "PRIVATE_PACKAGE_MISSING_REQUIRE_DBT_VERSION"

\* C6: a public dependency whose installed-version state is DBT_VERSION_RANGE_INCLUDES_2_0
\* gets NO_UPGRADE_REQUIRED, whatever its declared range and knowledge-base lists.
C6_InstalledCompatible ==
    Returned =>
        \A p \in Declared :
            (~PrivateSource(p) /\ InstalledState(p) = "DBT_VERSION_RANGE_INCLUDES_2_0")
            => /\ ResultsOf(p) # {}
               /\ \A r \in ResultsOf(p) : r.version_reason = "NO_UPGRADE_REQUIRED"

\* such a dependency with compatible versions known inside and outside its declared range
C6_Witness ==
    /\ Returned
    /\ \E p \in Declared :
          /\ ~PrivateSource(p) /\ InstalledState(p) = "DBT_VERSION_RANGE_INCLUDES_2_0"
          /\ CompatibleInRange(p) # {} /\ CompatibleOutOfRange(p) # {}
          /\ \E r \in ResultsOf(p) : r.version_reason = "NO_UPGRADE_REQUIRED"

C9_NoForcedUpgradeWithoutFlag ==
    (pc = "applied" /\ buckets.override_pinned_version = FALSE) =>
        /\ \A r \in ResultSet :
              /\ r.version_reason = "PUBLIC_PACKAGE_FUSION_COMPATIBLE_VERSION_EXCEEDS_PROJECT_CONFIG"
                    => /\ package_final_version(r) = r.installed_version
                       /\ r \notin Elements(buckets.packages_with_upgrades)
                       /\ r \in Elements(buckets.packages_with_forced_upgrades)
              /\ package_final_version(r) # r.installed_version
                    => r.version_reason = "UPGRADE_AVAILABLE"
        /\ manifest = ManifestOf(package_dependencies)

\* applied without the force flag to a result that recommends an out-of-range version
C9_Witness ==
    /\ pc = "applied"
    /\ buckets.override_pinned_version = FALSE
    /\ \E r \in ResultSet :
          /\ r.version_reason = "PUBLIC_PACKAGE_FUSION_COMPATIBLE_VERSION_EXCEEDS_PROJECT_CONFIG"
          /\ r.compatible_version # None
          /\ r.installed_version # "unknown"

\* C10: a public dependency with no knowledge-base data, in no override set and whose
\* installed version is not self-declared compatible gets
\* PUBLIC_PACKAGE_MISSING_FUSION_ELIGIBILITY, and nothing is raised.
C10_NoKnowledgeBaseData ==
    /\ pc # "raised"
    /\ Returned =>
          \A p \in Declared :
              (/\ ~PrivateSource(p) /\ ~Overridden(p)
               /\ CompatibleVersions(p) = {} /\ IncompatibleVersions(p) = {} /\ UnknownVersions(p) = {}
               /\ InstalledState(p) # "DBT_VERSION_RANGE_INCLUDES_2_0")
              => /\ ResultsOf(p) # {}
                 /\ \A r \in ResultsOf(p) :
                       r.version_reason = "PUBLIC_PACKAGE_MISSING_FUSION_ELIGIBILITY"

\* a public package absent from the knowledge base whose installed version excludes 2.0.0
C10_Witness ==
    /\ Returned
    /\ \E p \in Declared :
          /\ ~PrivateSource(p) /\ ~Overridden(p)
          /\ p.fusion_compatible_versions = None
          /\ p.fusion_incompatible_versions = None
          /\ p.unknown_compatibility_versions = None
          /\ InstalledState(p) = "DBT_VERSION_RANGE_EXCLUDES_2_0"
          /\ \E r \in ResultsOf(p) : r.version_reason = "PUBLIC_PACKAGE_MISSING_FUSION_ELIGIBILITY"

\* the reasons that carry a recommended version
Recommending ==
    {"UPGRADE_AVAILABLE", "PUBLIC_PACKAGE_FUSION_COMPATIBLE_VERSION_EXCEEDS_PROJECT_CONFIG"}

\* C11: check_for_package_upgrades never recommends a downgrade: a result that recommends a
\* version, for a package whose installed version is known, recommends none lower than the
\* installed one; a package whose only compatible versions are lower than its installed
\* version gets no recommending reason.
C11_NoDowngrade ==
    Returned =>
        \A p \in Declared : \A r \in ResultsOf(p) :
            (p.installed_package_version # None) =>
                /\ (r.version_reason \in Recommending) =>
                      \A v \in CompatibleVersions(p) :
                          r.compatible_version = Some(to_version_string(v))
                          => ~VersionLess(v, p.installed_package_version[1])
                /\ (/\ CompatibleVersions(p) # {}
                    /\ \A v \in CompatibleVersions(p) : VersionLess(v, p.installed_package_version[1]))
                      => r.version_reason \notin Recommending

\* C12: the manual overrides are absolute in the decision engine: a public dependency whose
\* id is in the explicit-disallow or the explicit-allow set never gets UPGRADE_AVAILABLE or
\* PUBLIC_PACKAGE_FUSION_COMPATIBLE_VERSION_EXCEEDS_PROJECT_CONFIG, whatever compatible
\* versions the knowledge base lists for it.
C12_OverridesAbsolute ==
    Returned =>
        \A p \in Declared :
            (~PrivateSource(p) /\ Overridden(p))
            => \A r \in ResultsOf(p) : r.version_reason \notin Recommending

\* the list holds no version twice
NoDuplicates(list) == \A i, j \in 1..Len(list) : list[i] = list[j] => i = j

\* the number of entries of list that are in the set S
RECURSIVE CountIn(_, _)
CountIn(list, S) ==
    IF list = <<>> THEN 0
    ELSE (IF Head(list) \in S THEN 1 ELSE 0) + CountIn(Tail(list), S)

\* C13 as stated: find_fusion_compatible_versions_in_requested_range returns a strictly
\* descending list (no two adjacent elements equal, even when the knowledge-base list
\* holds a version twice) whose first element is the maximum compatible version in range.
C13_StrictlyDescending ==
    \A p \in Declared :
        LET versions == find_fusion_compatible_versions_in_requested_range(p)
        IN /\ \A i \in 1..(Len(versions) - 1) : VersionLess(versions[i + 1], versions[i])
           /\ Len(versions) > 0 => versions[1] = Highest(CompatibleInRange(p))

\* C13 amended: the list is descending, not strictly: it holds every in-range entry of the
\* knowledge-base list, a version listed twice appearing twice, next to itself. It is
\* strictly descending when the knowledge-base list holds no version twice; when non-empty
\* its first element is the maximum compatible version in range. Stated of every dependency
\* of every manifest the engine is called with.
C13_Descending ==
    pc = "start" =>
    \A p \in Declared :
        LET versions == find_fusion_compatible_versions_in_requested_range(p)
        IN /\ \A i \in 1..(Len(versions) - 1) : ~VersionLess(versions[i], versions[i + 1])
           /\ Elements(versions) = CompatibleInRange(p)
           /\ Len(versions) = CountIn(ListOf(p.fusion_compatible_versions), CompatibleInRange(p))
           /\ NoDuplicates(ListOf(p.fusion_compatible_versions))
                 => \A i \in 1..(Len(versions) - 1) : VersionLess(versions[i + 1], versions[i])
           /\ Len(versions) > 0 => versions[1] = Highest(CompatibleInRange(p))

\* the individual-version step has queried a package whose knowledge-base list holds an
\* in-range version twice
C13_Witness ==
    /\ Returned
    /\ \E p \in Declared :
          /\ Remaining(p)
          /\ p.fusion_compatible_versions = Some(<< <<1, 2, 0>>, <<1, 2, 0>> >>)
          /\ find_fusion_compatible_versions_in_requested_range(p) = << <<1, 2, 0>>, <<1, 2, 0>> >>
          /\ \E r \in ResultsOf(p) : r.version_reason = "UPGRADE_AVAILABLE"

\* a version as one number, for versions whose minor and patch are below 100
Numeric(v) == v[1] * 10000 + v[2] * 100 + v[3]

\* the bounds L, U of a dependency declared with >=L,<U
DeclaredHalfOpen(p) ==
    /\ p.project_config_raw_version_specifier # None
    /\ Len(p.project_config_raw_version_specifier[1]) = 2
    /\ p.project_config_raw_version_specifier[1][1].matcher = ">="
    /\ p.project_config_raw_version_specifier[1][2].matcher = "<"
LowerOf(p) == p.project_config_raw_version_specifier[1][1].version
UpperOf(p) == p.project_config_raw_version_specifier[1][2].version
Between(v, p) == Numeric(LowerOf(p)) <= Numeric(v) /\ Numeric(v) < Numeric(UpperOf(p))

BeforeFallback(rs) == SubSeq(rs, 1, Len(rs) - Len(iteration_order[1]))

C16_SideEffectFree ==
    [][package_dependencies' = package_dependencies /\ manifest' = manifest]_vars

\* the engine has returned after querying a package whose knowledge-base list of compatible
\* versions is not in descending order, and the list is as it was
C16_Witness ==
    /\ Returned
    /\ Len(results) > 0
    /\ \E p \in Declared :
          /\ Remaining(p)
          /\ p.fusion_compatible_versions = Some(<< <<1, 2, 0>>, <<1, 10, 0>> >>)
          /\ find_fusion_compatible_versions_in_requested_range(p) = << <<1, 10, 0>>, <<1, 2, 0>> >>
          /\ \E r \in ResultsOf(p) : r.compatible_version = Some("1.10.0")

\* the project directory generate_package_dependencies was called on
Project == root_dir[1]
Loading == root_dir # None

\* the content of the manifest file read
KeptFile ==
    IF dependency_path = Some("packages.yml") THEN Project.packages_yml ELSE Project.dependencies_yml

\* the file yields a mapping with a packages list / without the packages key
HoldsList(file) == file.readable /\ file.parsed.packages_key = "list"
LacksPackagesKey(file) == ~file.readable \/ file.parsed.packages_key = "absent"

Logged(message) == \E i \in 1..Len(log) : log[i] = message

\* the package id of the entry at position i of a packages list
EntryId(entries, i) ==
    IF entries[i].package = None THEN "package_" \o NatToString(i - 1) ELSE entries[i].package[1]

\* the dependencies are those of the packages list: one per id, in the order of the first
\* entry of each id, with the source keys and version of that entry
DependenciesOf(entries) ==
    /\ {p.package_id : p \in Declared} = {EntryId(entries, i) : i \in 1..Len(entries)}
    /\ \A i, j \in 1..Len(package_dependencies) :
          package_dependencies[i].package_id = package_dependencies[j].package_id => i = j
    /\ \A p \in Declared :
          LET first == CHOOSE i \in 1..Len(entries) :
                           /\ EntryId(entries, i) = p.package_id
                           /\ \A j \in 1..(i - 1) : EntryId(entries, j) # p.package_id
          IN /\ p.project_config_raw_version_specifier = entries[first].version
             /\ p.local <=> entries[first].source = "local"
             /\ p.git <=> entries[first].source = "git"
             /\ p.tarball <=> entries[first].source = "tarball"

\* C17: with no manifest file, or with more than one manifest file of the same name,
\* generate_package_dependencies returns no DbtPackageFile and raises nothing, and neither
\* the installed-package scan nor anything after it happens.
C17_StructuredFailure ==
    (/\ Loading
     /\ pc # "find"
     /\ \/ Project.found.packages_yml + Project.found.dependencies_yml = 0
        \/ Project.found.packages_yml > 1
        \/ Project.found.dependencies_yml > 1)
    => /\ pc = "failed"
       /\ package_dependencies = <<>>
       /\ lookup = None

\* C18: with exactly one packages.yml and one dependencies.yml, generate_package_dependencies
\* does not fail for that: it logs that only packages.yml is loaded, reads packages.yml and
\* goes on as with packages.yml alone; it returns without a file only if packages.yml yields
\* no packages key, and the DbtPackageFile it builds holds the dependencies of packages.yml only.
C18_SoftConflict ==
    (/\ Loading
     /\ pc # "find"
     /\ Project.found.packages_yml = 1
     /\ Project.found.dependencies_yml = 1)
    => /\ dependency_path = Some("packages.yml")
       /\ Logged("Project contains both packages.yml and dependencies.yml, package dependencies will only be loaded from packages.yml")
       /\ pc = "failed" => LacksPackagesKey(Project.packages_yml)
       /\ HoldsList(Project.packages_yml) =>
             /\ pc \in {"parse", "scan", "loaded", "raised"}
             /\ pc # "parse" =>
                   /\ manifest = Project.packages_yml.parsed.packages
                   /\ DependenciesOf(Project.packages_yml.parsed.packages)

\* one of each found, with different packages lists: the file is loaded from packages.yml
C18_Witness ==
    /\ Loading
    /\ pc = "loaded"
    /\ Project.found.packages_yml = 1
    /\ Project.found.dependencies_yml = 1
    /\ HoldsList(Project.dependencies_yml)
    /\ Project.dependencies_yml.parsed.packages =
          <<ManifestEntry(Some("dbt-labs/logging"), "package", None)>>
    /\ IdsOf(package_dependencies) = <<"dbt-labs/dbt_utils", "package_1">>

\* C19: when the manifest read yields no top-level packages key (the unreadable or
\* unparsable file, which yields an empty mapping, included), no DbtPackageFile is produced
\* and generate_package_dependencies returns a failure before the installed-package scan
\* and the merge; nothing is raised.
C19_MissingPackagesKey ==
    (/\ Loading
     /\ dependency_path # None
     /\ pc # "parse"
     /\ LacksPackagesKey(KeptFile))
    => /\ pc = "failed"
       /\ package_dependencies = <<>>
       /\ lookup = None
       /\ Logged("YML must contain packages key")
       /\ log[Len(log)] = "Project dependencies could not be parsed"

\* the only manifest is a dependencies.yml that cannot be read: the call has returned
C19_Witness ==
    /\ Loading
    /\ pc = "failed"
    /\ dependency_path = Some("dependencies.yml")
    /\ ~Project.dependencies_yml.readable
    /\ Logged("Error when parsing package file dependencies.yml")

\* the positions of the dependencies with the given package name
Named(package_name) ==
    {i \in 1..Len(package_dependencies) : package_dependencies[i].package_name = package_name}

\* the mapping is keyed by the names of the dependencies, once each, every key mapping to a
\* dependency of that name, and every dependency whose name was taken is logged
LookupWellFormed(table) ==
    /\ {table[i].package_name : i \in 1..Len(table)} = {p.package_name : p \in Declared}
    /\ \A i, j \in 1..Len(table) : table[i].package_name = table[j].package_name => i = j
    /\ \A i \in 1..Len(table) :
          \E p \in Declared : /\ p.package_id = table[i].package_id
                              /\ p.package_name = table[i].package_name
    /\ \A i \in 1..Len(package_dependencies) :
          (\E j \in Named(package_dependencies[i].package_name) : j < i)
          => Logged("Duplicate package name " \o package_dependencies[i].package_name
                    \o " for package_id " \o package_dependencies[i].package_id)

\* C20 as stated: on duplicate bare names get_reverse_lookup_by_package_name does not fail,
\* logs the collision, and maps the name to the id registered last.
C20_LastWriteWins ==
    (pc = "loaded" /\ lookup # None) =>
        /\ LookupWellFormed(lookup[1])
        /\ \A i \in 1..Len(lookup[1]) :
              lookup[1][i].package_id =
                  package_dependencies[CHOOSE k \in Named(lookup[1][i].package_name) :
                                           \A j \in Named(lookup[1][i].package_name) : j <= k].package_id

\* C20 amended: the name maps to the id registered first; the later dependency of the same
\* name is logged and left out of the mapping.
C20_FirstRegisteredWins ==
    (pc = "loaded" /\ lookup # None) =>
        /\ LookupWellFormed(lookup[1])
        /\ \A i \in 1..Len(lookup[1]) :
              lookup[1][i].package_id =
                  package_dependencies[CHOOSE k \in Named(lookup[1][i].package_name) :
                                           \A j \in Named(lookup[1][i].package_name) : k <= j].package_id

\* dbt-labs/dbt_utils and acme/dbt_utils are declared in this order: dbt_utils maps to
\* dbt-labs/dbt_utils, and the installed dbt_utils was merged into it
C20_Witness ==
    /\ pc = "loaded"
    /\ IdsOf(package_dependencies) = <<"dbt-labs/dbt_utils", "acme/dbt_utils">>
    /\ lookup = Some(<<[package_name |-> "dbt_utils", package_id |-> "dbt-labs/dbt_utils"]>>)
    /\ Logged("Duplicate package name dbt_utils for package_id acme/dbt_utils")
    /\ package_dependencies[1].installed_package_version = Some(<<1, 2, 0>>)
    /\ package_dependencies[2].installed_package_version = None

\* C21: for every result with reason UPGRADE_AVAILABLE that check_for_package_upgrades
\* returns, package_final_version() and the `version` field of to_dict() are the selected
\* upgrade version, the highest in-range compatible version, not the installed version; for
\* every other reason they are the installed version string.
C21_FinalVersionIsUpgrade ==
    Returned =>
        \A p \in Declared : \A r \in ResultsOf(p) :
            /\ to_dict(r).version = package_final_version(r)
            /\ IF r.version_reason = "UPGRADE_AVAILABLE"
               THEN package_final_version(r) = to_version_string(Highest(CompatibleInRange(p)))
               ELSE package_final_version(r) = get_installed_package_version(p)

\* the dependency is declared with no version constraint, or with an empty one
Unconstrained(p) == ListOf(p.project_config_raw_version_specifier) = <<>>

ReasonFromEvidence(p) ==
    IF PrivateSource(p) THEN "PRIVATE_PACKAGE_MISSING_REQUIRE_DBT_VERSION"
    ELSE IF /\ ~Overridden(p) /\ CompatibleVersions(p) = {}
            /\ IncompatibleVersions(p) # {} /\ UnknownVersions(p) = {}
    THEN "PUBLIC_PACKAGE_NOT_COMPATIBLE_WITH_FUSION"
    ELSE IF CompatibleInRange(p) # {} THEN "UPGRADE_AVAILABLE"
    ELSE IF CompatibleOutOfRange(p) # {}
    THEN "PUBLIC_PACKAGE_FUSION_COMPATIBLE_VERSION_EXCEEDS_PROJECT_CONFIG"
    ELSE "PUBLIC_PACKAGE_MISSING_FUSION_ELIGIBILITY"

\* C23: for a dependency no installed fact was merged into, get_installed_package_version
\* and the installed_version of its result are the string "unknown",
\* is_installed_version_fusion_compatible is UNKNOWN unless the id is in an override set,
\* and check_for_package_upgrades does not raise and gives it exactly the reason that its
\* source, the override sets and its knowledge-base lists determine.
C23_NoInstalledFact ==
    /\ pc # "raised"
    /\ \A p \in Declared :
          p.installed_package_version = None =>
              /\ get_installed_package_version(p) = "unknown"
              /\ InstalledState(p) =
                    (IF p.package_id \in EXPLICIT_DISALLOW_ALL_VERSIONS THEN "EXPLICIT_DISALLOW"
                     ELSE IF p.package_id \in EXPLICIT_ALLOW_ALL_VERSIONS THEN "EXPLICIT_ALLOW"
                     ELSE "UNKNOWN")
              /\ Returned =>
                    /\ ResultsOf(p) # {}
                    /\ \A r \in ResultsOf(p) :
                          /\ r.installed_version = "unknown"
                          /\ r.version_reason = ReasonFromEvidence(p)

\* the engine has returned for a manifest of several dependencies, none with an installed
\* fact: one gets UPGRADE_AVAILABLE from the knowledge base alone, one is in an override set
C23_Witness ==
    /\ Returned
    /\ Len(package_dependencies) >= 2
    /\ \A p \in Declared : p.installed_package_version = None
    /\ \E p \in Declared :
          /\ ~Overridden(p) /\ InstalledState(p) = "UNKNOWN"
          /\ \E r \in ResultsOf(p) :
                r.version_reason = "UPGRADE_AVAILABLE" /\ r.installed_version = "unknown"
    /\ \E p \in Declared :
          /\ Overridden(p) /\ InstalledState(p) # "UNKNOWN"
          /\ \E r \in ResultsOf(p) : r.installed_version = "unknown"

\* the place of the step that emits a reason, among the steps before the fallback
StepRank(version_reason) ==
    CASE version_reason = "PRIVATE_PACKAGE_MISSING_REQUIRE_DBT_VERSION" -> 1
      [] version_reason = "NO_UPGRADE_REQUIRED" -> 2
      [] version_reason = "PUBLIC_PACKAGE_NOT_COMPATIBLE_WITH_FUSION" -> 3
      [] version_reason = "PUBLIC_PACKAGE_MISSING_FUSION_ELIGIBILITY" -> 4
      [] version_reason \in Recommending -> 5
      [] OTHER -> 0

\* the number of records the fallback step appended to the returned list
FallbackCount == IF iteration_order = None THEN 0 ELSE Len(iteration_order[1])

\* the returned list follows the order of the steps
InStepOrder ==
    LET bulk == Len(results) - FallbackCount
    IN /\ \A i, j \in 1..bulk :
             i < j => /\ StepRank(results[i].version_reason) > 0
                      /\ StepRank(results[i].version_reason) <= StepRank(results[j].version_reason)
       /\ \A i \in (bulk + 1)..Len(results) :
             /\ results[i].version_reason = "PUBLIC_PACKAGE_MISSING_FUSION_ELIGIBILITY"
             /\ results[i].id = iteration_order[1][i - bulk]
       /\ \A i, j \in 1..Len(results) : results[i].id = results[j].id => i = j

\* C24: check_for_package_upgrades visits its steps in a fixed order and no package is
\* classified twice: in the returned list the PRIVATE_PACKAGE_MISSING_REQUIRE_DBT_VERSION
\* results precede the NO_UPGRADE_REQUIRED ones, which precede the
\* PUBLIC_PACKAGE_NOT_COMPATIBLE_WITH_FUSION ones, which precede the bulk
\* PUBLIC_PACKAGE_MISSING_FUSION_ELIGIBILITY ones, which precede the UPGRADE_AVAILABLE and
\* EXCEEDS_PROJECT_CONFIG ones, which precede the records of the fallback; after its
\* creation the working set packages_to_check only shrinks, and no removal targets a
\* package already removed (set.remove never raises).
C24_FixedStepOrder ==
    /\ [](pc # "raised" /\ (Returned => InStepOrder))
    /\ [][pc # "start" => packages_to_check' \subseteq packages_to_check]_vars

\* the engine has returned three records for three dependencies: one of the bulk
\* missing-eligibility step, then one of the individual-version step, then one of the fallback
C24_Witness ==
    /\ pc = "done"
    /\ Len(results) = 3
    /\ FallbackCount = 1
    /\ packages_to_check = {results[3].id}
    /\ results[1].version_reason = "PUBLIC_PACKAGE_MISSING_FUSION_ELIGIBILITY"
    /\ results[2].version_reason = "UPGRADE_AVAILABLE"
    /\ results[3].version_reason = "PUBLIC_PACKAGE_MISSING_FUSION_ELIGIBILITY"

\* C26: the in-range and the out-of-range query partition the knowledge-base list of
\* compatible versions: every entry of fusion_compatible_versions is returned by exactly
\* one of the two queries (as often as the list holds it), and neither returns a version
\* that is not in the list.
C26_RangePartition ==
    pc = "queried" =>
        /\ Elements(call[1].within) \cap Elements(call[1].outside) = {}
        /\ Elements(call[1].within) \cup Elements(call[1].outside)
              = CompatibleVersions(package_dependencies[1])
        /\ \A v \in CompatibleVersions(package_dependencies[1]) :
              CountIn(call[1].within, {v}) + CountIn(call[1].outside, {v})
                 = CountIn(ListOf(package_dependencies[1].fusion_compatible_versions), {v})

\* the queries have been called on a dependency whose knowledge-base list holds a version
\* inside the declared range and the version that is its excluded upper bound
C26_Witness ==
    /\ pc = "queried"
    /\ DeclaredHalfOpen(package_dependencies[1])
    /\ UpperOf(package_dependencies[1]) \in CompatibleVersions(package_dependencies[1])
    /\ Len(call[1].within) = 1
    /\ call[1].outside = <<UpperOf(package_dependencies[1])>>

\* C27: after any sequence of add_package_version / set_latest_package_version calls, a
\* call add_package_version(v, installed=True) leaves installed_package_version equal to
\* the version of v and installed_version_fusion_compatibility equal to the state of v,
\* also when the version string of v was registered by an earlier call (for example as the
\* latest version).
C27_InstalledMarkerKept ==
    (/\ pc = "versions" /\ call # None
     /\ call[1].op = "add_package_version" /\ call[1].installed) =>
            /\ package_dependencies[1].installed_package_version
                  = Some(call[1].new_package_version.version)
            /\ package_dependencies[1].installed_version_fusion_compatibility
                  = version_get_fusion_compatibility_state(call[1].new_package_version)

\* the positions of the manifest entries written without the `package` key
WithoutPackageKey == {i \in 1..Len(manifest) : manifest[i].package = None}

\* C29: a manifest entry is treated as a public package only if it is declared by a
\* `package` identity: every entry without the `package` key gets the id package_<index>,
\* has is_public_package() = false and is in the list get_private_package_names() that the
\* private step of check_for_package_upgrades reports.
C29_NoPackageKeyIsPrivate ==
    (pc \in {"scan", "loaded"}) =>
        \A i \in WithoutPackageKey :
            \E p \in Declared :
                /\ p.package_id = "package_" \o NatToString(i - 1)
                /\ ~is_public_package(p)
                /\ \E k \in 1..Len(get_private_package_names(package_dependencies)) :
                      get_private_package_names(package_dependencies)[k] = p.package_id

EntryStarts(file) == {i \in 1..Len(file) : Contains("-", file[i])}

EntryLines(file, i) ==
    {j \in i..Len(file) : \A k \in (i + 1)..j : k \notin EntryStarts(file)}

\* the only value a block of the entry at line i may have for a line number: a line of
\* the entry that contains the word, or -1 when the entry has no such line
OwnLine(file, i, word, line_number) ==
    IF \E j \in EntryLines(file, i) : Contains(word, file[j])
    THEN line_number + 1 \in EntryLines(file, i) /\ Contains(word, file[line_number + 1])
    ELSE line_number = -1

\* C28: after DbtPackageTextFile has parsed a manifest, the constructor has returned,
\* `lines` holds one element per file line, and every list entry of the file, the last
\* one included, is represented by exactly one block in key_blocks, whose package_line
\* and version_line are lines of that entry; hence change_package_version_in_block can
\* rewrite the version line of any declared package.
C28_EveryEntryHasItsBlock ==
    (call # None /\ call[1].op = "__init__" /\ text_file.exists) =>
        /\ call[1].raised = None
        /\ Len(text_file.this[1].lines) = Len(text_file.file)
        /\ \A i \in EntryStarts(text_file.file) :
              \E k \in 1..Len(text_file.this[1].key_blocks) :
                  /\ text_file.this[1].key_blocks[k].start_line = i - 1
                  /\ OwnLine(text_file.file, i, "package",
                             text_file.this[1].key_blocks[k].package_line)
                  /\ OwnLine(text_file.file, i, "version",
                             text_file.this[1].key_blocks[k].version_line)
                  /\ \A m \in 1..Len(text_file.this[1].key_blocks) :
                        text_file.this[1].key_blocks[m].start_line = i - 1 => m = k

\* a file with the one call dbt.config(k=...), and a file with the one access
\* dbt.config.get("k")
OneConfig(k) == <<ConfigCall(<<<<k, IF k = "meta" THEN DictValue ELSE StringValue>>>>)>>
OneAccess(k) == <<ConfigGet(k, None, <<>>)>>

\* the keys written in a file: the keyword arguments of its dbt.config calls and the keys
\* of its dbt.config.get accesses
KeysWritten(python_content) ==
    {python_content[i].kwargs[j][1] :
        <<i, j>> \in {x \in (1..Len(python_content)) \X (1..MaxKwargs) :
                         x[2] <= Len(python_content[x[1]].kwargs)}}
    \cup {python_content[i].key :
            i \in {j \in 1..Len(python_content) : python_content[j].kind = "get"}}

\* C30: the two refactors of Python models agree on which config keys are custom: for
\* every schema specification, node type and key k, refactor_custom_configs_to_meta_python
\* moves k=... of a dbt.config(...) call into meta if and only if
\* move_custom_config_access_to_meta_python rewrites the access dbt.config.get("k"); a key
\* allowed for the node type is left unchanged by both; and a file that writes only keys
\* allowed for the node type is returned with refactored = false and identical content.
C30_RefactorsAgree ==
    pc = "python" =>
        /\ \A k \in ConfigKeys :
              /\ refactor_custom_configs_to_meta_python(
                     OneConfig(k), python_file.schema_specs, python_file.node_type).refactored
                 <=> move_custom_config_access_to_meta_python(
                         OneAccess(k), python_file.schema_specs, python_file.node_type).refactored
              /\ k \in python_file.schema_specs[python_file.node_type] =>
                    /\ refactor_custom_configs_to_meta_python(
                           OneConfig(k), python_file.schema_specs,
                           python_file.node_type).refactored_content = OneConfig(k)
                    /\ move_custom_config_access_to_meta_python(
                           OneAccess(k), python_file.schema_specs,
                           python_file.node_type).refactored_content = OneAccess(k)
        /\ (/\ call # None
            /\ KeysWritten(call[1].original_content)
                   \subseteq python_file.schema_specs[python_file.node_type]) =>
                 /\ ~call[1].refactored
                 /\ call[1].refactored_content = call[1].original_content

====
